---------------------------- MODULE Spec2Model ----------------------------
(***************************************************************************)
(* A model of the generation workflow of src/asset_generator.py            *)
(* (class FluxAssetGenerator): the rate-limited submitter                  *)
(* (_wait_for_rate_limit, _submit_generation_request), the poller          *)
(* (_poll_for_result), and the asset workflow on top of them               *)
(* (generate_asset, generate_batch, the animation sequence,                *)
(* generate_all_improved, batch_remove_backgrounds,                        *)
(* generate_style_guide_first, setup_style_guide_references, edit_image).  *)
(*                                                                         *)
(* The submitter is run by a bag of threads.  A thread has no identity in  *)
(* the program, so the threads are kept as a bag of their local states.    *)
(* Spec runs one thread (the sequential program), ConcSpec runs            *)
(* NumThreads of them on the same generator.  PollSpec runs one call of    *)
(* _poll_for_result on a clock.  GenSpec runs the asset workflow; there a  *)
(* call of the submitter and a call of the poller are one step each, that  *)
(* applies the same operators to the answers the call gets.  PostSpec      *)
(* applies post_process_image to an image and again to its result.         *)
(***************************************************************************)
EXTENDS Integers, Sequences, FiniteSets, Bags, TLC

VARIABLES
    threads,          \* bag of the local states of the callers of _submit_generation_request
    active_requests,  \* self.active_requests
    base_url,         \* self.base_url
    mode,             \* "single": one sequential caller; "conc": NumThreads callers
    quota429,         \* concurrent runs: the 429 answers the server still gives
    ppc,              \* where the caller of _poll_for_result is
    now,              \* time.time()
    start_time,       \* _poll_for_result: start_time
    timeout,          \* _poll_for_result: timeout
    wait_time,        \* _poll_for_result: wait_time
    presult,          \* what _poll_for_result returned
    pobs,             \* what has been observed of the call of _poll_for_result
    asset_specs,      \* self.asset_specs, the catalogue
    output_dir,       \* the files of self.output_dir: name -> content
    orch,             \* where the caller of the workflow operation is
    cur,              \* the running call of generate_asset or remove_background
    hist,             \* what has been observed of the workflow operation
    pp                \* where the caller of post_process_image is, and its values

submit_vars == <<threads, active_requests, base_url, mode, quota429>>
poll_vars == <<ppc, now, start_time, timeout, wait_time, presult, pobs>>
gen_vars == <<asset_specs, output_dir, orch, cur, hist>>
post_vars == <<pp>>
vars == <<submit_vars, poll_vars, gen_vars, post_vars>>

---------------------------------------------------------------------------
(* Bounds of the model *)

\* callers of the concurrent runs: one more than the lower ceiling
NumThreads == 7
\* longest run of consecutive HTTP 429 answers to one submission (sequential runs)
MaxRetries == 25
\* HTTP 429 answers the server gives in all during a concurrent run
ConcMaxRetries == 1
\* the sleeps of the rate-limit wait that are counted (the counter saturates)
MaxWaits == 2
\* longest time a status request or a download takes, in seconds
MaxLatency == 1
\* a timeout shorter than the default one, in seconds
ShortTimeout == 7
\* the status requests that are counted (the counter saturates)
MaxGets == 3
\* workflow runs: longest run of HTTP 429 answers to one submission
GenMaxRetries == 1
\* workflow runs: most status answers that keep one poll going
GenMaxPending == 1

---------------------------------------------------------------------------
(* Program constants *)

\* self.max_concurrent_requests
max_concurrent_requests == 24
\* self.max_concurrent_kontext_max
max_concurrent_kontext_max == 6

\* _poll_for_result: timeout: int = 300
default_timeout == 300
\* _poll_for_result: wait_time = 2
initial_wait_time == 2
\* _poll_for_result: min(wait_time * 1.2, 15)
max_wait_time == 15

\* class FluxModel
KONTEXT_PRO == "flux-kontext-pro"
KONTEXT_MAX == "flux-kontext-max"
PRO_1_1 == "flux-pro-1.1"
PRO == "flux-pro"
DEV == "flux-dev"
FluxModel == {KONTEXT_PRO, KONTEXT_MAX, PRO_1_1, PRO, DEV}

\* self.base_urls
base_urls ==
    [global |-> "https://api.bfl.ai",
     eu |-> "https://api.eu.bfl.ai",
     us |-> "https://api.us.bfl.ai"]

\* self.base_urls.get(region, self.base_urls["global"])
BaseUrlOf(region) ==
    IF region \in DOMAIN base_urls THEN base_urls[region] ELSE base_urls["global"]

\* the regions a generator is constructed with in the model
Regions == {"global", "eu", "mars"}

---------------------------------------------------------------------------
(* Values *)

\* a field a JSON object does not have (dict.get gives None, dict[...] raises KeyError)
Absent == "<absent>"
\* Python's None as the result of _submit_generation_request
None == [kind |-> "None"]
Handle(id, url) == [kind |-> "handle", id |-> id, polling_url |-> url]

\* The answers of the submission endpoint: an HTTP status, or no answer at all
\* (requests.post raises).  "500" stands for every status other than 200, 429, 402.
RAISES == "raises"
Answers == {"200", "429", "402", "500", RAISES}
FinalAnswers == Answers \ {"429"}

\* The bodies of a 200 answer: json() may raise, "id" may be missing,
\* "polling_url" may be missing, empty or given.
NoBody == [json_ok |-> FALSE, id |-> Absent, polling_url |-> Absent]
Bodies ==
    {NoBody} \cup
    [json_ok : {TRUE}, id : {Absent, "job-1"},
     polling_url : {Absent, "", "https://srv/poll/1"}]
ConcBodies == {[json_ok |-> TRUE, id |-> "job-1", polling_url |-> Absent]}

\* What one submission is answered: k answers 429, then one final answer.
\* Every answer other than 429 ends the submission, so these are all the
\* sequences of answers one outermost call can see.
Scripts(m, quota) ==
    IF m = "single"
    THEN {[k |-> k, final |-> f, body |-> b] :
            k \in 0..MaxRetries, f \in FinalAnswers \ {"200"}, b \in {NoBody}}
         \cup {[k |-> k, final |-> "200", body |-> b] :
            k \in 0..MaxRetries, b \in Bodies}
    ELSE {[k |-> k, final |-> "200", body |-> b] :
            k \in 0..quota, b \in ConcBodies}

ModelsOf(m) == IF m = "single" THEN FluxModel ELSE {KONTEXT_MAX, PRO_1_1}

Min(a, b) == IF a <= b THEN a ELSE b

---------------------------------------------------------------------------
(* _wait_for_rate_limit and _submit_generation_request *)

\* _wait_for_rate_limit: max_requests
max_requests(model) ==
    IF model = KONTEXT_MAX THEN max_concurrent_kontext_max
    ELSE max_concurrent_requests

\* RateLimited with a fault: the comparison is strict
RateLimited_strict(active, model) == active > max_requests(model)

\* _wait_for_rate_limit: the condition of the while loop
RateLimited(active, model) == active >= max_requests(model)

\* self.active_requests += 1
Acquire(active) == active + 1

\* Release with a fault: the decrement is skipped when the try block raised
Release_not_on_except(active, outcome) ==
    IF outcome = "except" THEN active ELSE active - 1

\* finally: self.active_requests -= 1, on every exit of the try block
Release(active, outcome) == active - 1

\* result["id"] and response.json() succeed
ParseOk(body) == body.json_ok /\ body.id # Absent

\* PollingUrl with a fault: an empty polling_url counts as given
PollingUrl_keeps_empty(body, base) ==
    IF body.polling_url # Absent
    THEN body.polling_url
    ELSE base \o "/v1/get_result?id=" \o body.id

\* polling_url = result.get("polling_url"); if not polling_url: constructed
PollingUrl(body, base) ==
    IF body.polling_url # Absent /\ body.polling_url # ""
    THEN body.polling_url
    ELSE base \o "/v1/get_result?id=" \o body.id

\* Outcome with a fault: 402 is retried like 429
Outcome_retries_402(answer, body) ==
    CASE answer = "200" /\ ParseOk(body) -> "handle"
      [] answer = "200" /\ ~ParseOk(body) -> "except"
      [] answer \in {"429", "402"} -> "retry"
      [] answer = RAISES -> "except"
      [] OTHER -> "none"

\* the if/elif chain on response.status_code, and the except clause:
\* what the frame does with an answer
Outcome(answer, body) ==
    CASE answer = "200" /\ ParseOk(body) -> "handle"
      [] answer = "200" /\ ~ParseOk(body) -> "except"
      [] answer = "429" -> "retry"
      [] answer = "402" -> "none"
      [] answer = RAISES -> "except"
      [] OTHER -> "none"

\* the value the frame returns
Returned(answer, body, base) ==
    IF Outcome(answer, body) = "handle"
    THEN Handle(body.id, PollingUrl(body, base))
    ELSE None

\* A caller that is not inside _submit_generation_request.
IdleThread ==
    [pc |-> "idle", model |-> KONTEXT_PRO, depth |-> 0,
     k |-> 0, final |-> "200", body |-> NoBody,
     answer |-> "", result |-> None,
     posts |-> 0, sleeps |-> 0, waits |-> 0, n429 |-> 0, before |-> 0]

ThreadSet == BagToSet(threads)
Replace(t, u) == (threads (-) SetToBag({t})) (+) SetToBag({u})

\* The counters posts, sleeps, waits, n429 and before observe one outermost
\* call; they are kept in the sequential runs only, where a caller that has
\* returned also keeps what it returned (pc = "done").
Obs(v) == IF mode = "single" THEN v ELSE 0

\* The caller enters _submit_generation_request (the outermost frame).
Call(t) ==
    /\ t.pc \in {"idle", "done"}
    /\ \E m \in ModelsOf(mode), s \in Scripts(mode, quota429) :
         /\ threads' = Replace(t, [IdleThread EXCEPT
                        !.pc = "wait", !.model = m,
                        !.k = s.k, !.final = s.final, !.body = s.body,
                        !.before = Obs(active_requests)])
         /\ quota429' = IF mode = "single" THEN quota429 ELSE quota429 - s.k
    /\ UNCHANGED <<active_requests, base_url, mode, poll_vars, gen_vars, post_vars>>

\* _wait_for_rate_limit: the loop condition holds, time.sleep(1)
WaitSleep(t) ==
    /\ t.pc = "wait"
    /\ RateLimited(active_requests, t.model)
    /\ threads' = Replace(t, [t EXCEPT !.waits = Obs(Min(t.waits + 1, MaxWaits))])
    /\ UNCHANGED <<active_requests, base_url, mode, quota429, poll_vars, gen_vars, post_vars>>


\* _wait_for_rate_limit: the loop condition fails, the function returns
WaitPass(t) ==
    /\ t.pc = "wait"
    /\ ~RateLimited(active_requests, t.model)
    /\ threads' = Replace(t, [t EXCEPT !.pc = "acquire"])
    /\ UNCHANGED <<active_requests, base_url, mode, quota429, poll_vars, gen_vars, post_vars>>

\* self.active_requests += 1, then the request is built and posted.  The
\* read-modify-write is one step: the interleavings that split it only add
\* behaviours, and nothing is confirmed under ConcSpec.
Post(t) ==
    /\ t.pc = "acquire"
    /\ active_requests' = Acquire(active_requests)
    /\ threads' = Replace(t, [t EXCEPT !.pc = "inflight",
                                       !.posts = Obs(t.posts + 1)])
    /\ UNCHANGED <<base_url, mode, quota429, poll_vars, gen_vars, post_vars>>

\* requests.post returns or raises; the frame runs the if/elif chain up to
\* its return, or up to the sleep of the 429 branch
Respond(t) ==
    /\ t.pc = "inflight"
    /\ LET answer == IF t.k > 0 THEN "429" ELSE t.final
           out == Outcome(answer, t.body)
       IN threads' = Replace(t,
            IF out = "retry"
            THEN [t EXCEPT !.pc = "sleep429", !.answer = answer,
                           !.k = t.k - 1, !.n429 = Obs(t.n429 + 1)]
            ELSE [t EXCEPT !.pc = "finally", !.answer = answer,
                           !.result = Returned(answer, t.body, base_url)])
    /\ UNCHANGED <<active_requests, base_url, mode, quota429, poll_vars, gen_vars, post_vars>>

\* time.sleep(random.uniform(5, 15)), then the recursive call: a new frame
Retry(t) ==
    /\ t.pc = "sleep429"
    /\ threads' = Replace(t, [t EXCEPT !.pc = "wait", !.depth = t.depth + 1,
                                       !.sleeps = Obs(t.sleeps + 1)])
    /\ UNCHANGED <<active_requests, base_url, mode, quota429, poll_vars, gen_vars, post_vars>>

\* finally: self.active_requests -= 1; the frame returns its result to the
\* frame that called it, which is in its 429 branch and returns it in turn
Finally(t) ==
    /\ t.pc = "finally"
    /\ active_requests' = Release(active_requests, Outcome(t.answer, t.body))
    /\ threads' = Replace(t,
            IF t.depth > 0
            THEN [t EXCEPT !.depth = t.depth - 1]
            ELSE IF mode = "single" THEN [t EXCEPT !.pc = "done"]
            ELSE IdleThread)
    /\ UNCHANGED <<base_url, mode, quota429, poll_vars, gen_vars, post_vars>>

\* the attributes __init__ assigns to the generator
InstanceAttributes ==
    {"api_key", "base_urls", "base_url", "output_dir",
     "max_concurrent_requests", "max_concurrent_kontext_max",
     "active_requests", "logger", "brand_colors", "yeti_style", "icon_style",
     "environment_style", "asset_specs"}

\* the methods the class defines
Methods ==
    {"__init__", "_load_asset_specs", "_encode_image_to_base64",
     "_wait_for_rate_limit", "_submit_generation_request",
     "_poll_for_result", "_build_prompt", "_build_item_prompt",
     "_build_yeti_prompt", "_build_environment_prompt", "generate_image",
     "post_process_image", "generate_asset", "generate_style_guide_first",
     "generate_batch", "_generate_animation_sequence_simplified",
     "generate_all_improved", "generate_yeti_animation_only",
     "generate_item_icons_only", "setup_style_guide_references",
     "edit_image", "remove_background", "batch_remove_backgrounds",
     "interactive_edit_session", "interactive_review"}

\* self.<name> evaluates; otherwise it raises AttributeError
HasAttr(name) == name \in InstanceAttributes \cup Methods

\* FluxAssetGenerator.__init__
GeneratorInit(regions) ==
    /\ active_requests = 0
    /\ \E region \in regions : base_url = BaseUrlOf(region)

---------------------------------------------------------------------------
(* Time.  A time is <<s, f>>: s seconds and f / FracDen of a second, with  *)
(* 0 <= f < FracDen.  FracDen = 5^11 holds 2 * 1.2^n exactly for every     *)
(* n <= 11, which are all the values of wait_time below the cap; floating  *)
(* point rounding is left out.                                             *)

FracDen == 5^11
Seconds(n) == <<n, 0>>
TLess(a, b) == a[1] < b[1] \/ (a[1] = b[1] /\ a[2] < b[2])
TMin(a, b) == IF TLess(b, a) THEN b ELSE a
TAdd(a, b) ==
    IF a[2] + b[2] >= FracDen
    THEN <<a[1] + b[1] + 1, a[2] + b[2] - FracDen>>
    ELSE <<a[1] + b[1], a[2] + b[2]>>
TSub(a, b) ==
    IF a[2] >= b[2]
    THEN <<a[1] - b[1], a[2] - b[2]>>
    ELSE <<a[1] - b[1] - 1, a[2] + FracDen - b[2]>>
\* a * 1.2, as a * 6 / 5; the division rounds down to the grid, which it
\* does only for values above the cap
Times12(a) ==
    LET s6 == 6 * a[1] + ((6 * a[2]) \div FracDen)
        f6 == (6 * a[2]) % FracDen
    IN <<s6 \div 5, ((s6 % 5) * FracDen + f6) \div 5>>

---------------------------------------------------------------------------
(* _poll_for_result *)

\* the bytes of an image as the result of _poll_for_result
Bytes(content) == [kind |-> "bytes", content |-> content]

\* The answers to a status request: requests.get raises, or an HTTP status
\* with, on 200, a JSON object that may have a status and a result.sample.
\* "Queued" stands for every status that is none of the four the code names.
StatusAnswers ==
    {[http |-> RAISES, status |-> Absent, sample |-> Absent],
     [http |-> "500", status |-> Absent, sample |-> Absent]}
    \cup [http : {"200"},
          status : {"Pending", "Error", "Content Moderated", "Queued", Absent},
          sample : {Absent}]
    \cup [http : {"200"}, status : {"Ready"}, sample : {Absent, "https://img/1"}]

\* The answers to the download of result.sample
DownloadAnswers ==
    {[http |-> RAISES, content |-> ""],
     [http |-> "404", content |-> ""],
     [http |-> "200", content |-> "png-1"]}

Timeouts == {0, ShortTimeout, default_timeout}
StartTimes == {<<0, 0>>, <<1000, 7>>}

\* time.time() - start_time
Elapsed == TSub(now, start_time)

\* LoopGuard with a fault: the comparison is not strict
LoopGuard_le(elapsed, limit) == ~TLess(Seconds(limit), elapsed)

\* LoopGuard with a fault: the loop ends when the longest sleep would no
\* longer fit in the time that remains
LoopGuard_leaves_room(elapsed, limit) ==
    TLess(TAdd(elapsed, Seconds(max_wait_time)), Seconds(limit))

\* while time.time() - start_time < timeout
LoopGuard(elapsed, limit) == TLess(elapsed, Seconds(limit))

\* NextWaitTime with a fault: max instead of min
NextWaitTime_max(w) ==
    IF TLess(Times12(w), Seconds(max_wait_time))
    THEN Seconds(max_wait_time) ELSE Times12(w)

\* NextWaitTime with a fault: the cap is left out
NextWaitTime_uncapped(w) == Times12(w)

\* wait_time = min(wait_time * 1.2, 15)
NextWaitTime(w) == TMin(Times12(w), Seconds(max_wait_time))

\* StatusOutcome with a fault: a rejected generation is polled again
StatusOutcome_retries_error(a) ==
    CASE a.http = RAISES -> "except"
      [] a.http # "200" -> "polling_error"
      [] a.status = "Ready" /\ a.sample = Absent -> "except"
      [] a.status = "Ready" -> "download"
      [] a.status = "Pending" -> "sleep"
      [] a.status \in {"Error", "Content Moderated"} -> "sleep"
      [] OTHER -> "again"

\* the body of the try block up to the download or the sleep: what the
\* iteration does with the answer to the status request
StatusOutcome(a) ==
    CASE a.http = RAISES -> "except"
      [] a.http # "200" -> "polling_error"
      [] a.status = "Ready" /\ a.sample = Absent -> "except"
      [] a.status = "Ready" -> "download"
      [] a.status \in {"Error", "Content Moderated"} -> "rejected"
      [] a.status = "Pending" -> "sleep"
      [] OTHER -> "again"

\* DownloadOutcome with a fault: every answered download counts as the image
DownloadOutcome_accepts_any(a) ==
    CASE a.http = RAISES -> "except"
      [] OTHER -> "ready"

\* what the iteration does with the answer to the download
DownloadOutcome(a) ==
    CASE a.http = RAISES -> "except"
      [] a.http = "200" -> "ready"
      [] OTHER -> "download_error"

\* no status answer, no download answer yet
NoAnswer == [http |-> "", status |-> Absent, sample |-> Absent]
NoDownload == [http |-> "", content |-> ""]

NoObs ==
    [gets |-> 0, downloads |-> 0, n_pending |-> 0, last_sleep |-> <<0, 0>>,
     terminal |-> FALSE, n_other |-> 0, why |-> "",
     answer |-> NoAnswer, url |-> Absent, dl |-> NoDownload]

\* _poll_for_result is entered: start_time = time.time(); wait_time = 2
PollCall ==
    /\ ppc = "idle"
    /\ \E limit \in Timeouts : timeout' = limit
    /\ start_time' = now
    /\ wait_time' = Seconds(initial_wait_time)
    /\ ppc' = "loop"
    /\ UNCHANGED <<now, presult, pobs, submit_vars, gen_vars, post_vars>>

\* the loop condition holds: the status request is sent
PollRequest ==
    /\ ppc = "loop"
    /\ LoopGuard(Elapsed, timeout)
    /\ ppc' = "status"
    /\ pobs' = [pobs EXCEPT !.gets = Min(pobs.gets + 1, MaxGets)]
    /\ UNCHANGED <<now, start_time, timeout, wait_time, presult, submit_vars, gen_vars, post_vars>>

\* the loop condition fails: "Generation timed out", return None
PollTimeout ==
    /\ ppc = "loop"
    /\ ~LoopGuard(Elapsed, timeout)
    /\ ppc' = "returned"
    /\ presult' = None
    /\ pobs' = [pobs EXCEPT !.why = "timeout"]
    /\ UNCHANGED <<now, start_time, timeout, wait_time, submit_vars, gen_vars, post_vars>>

\* the status request is answered after d seconds, and the iteration runs
\* up to its return, the download, the sleep, or the end of the loop body
PollAnswer ==
    /\ ppc = "status"
    /\ \E d \in 0..MaxLatency, a \in StatusAnswers :
         LET out == StatusOutcome(a) IN
         /\ now' = TAdd(now, Seconds(d))
         /\ ppc' = CASE out = "download" -> "download"
                     [] out = "sleep" -> "sleep"
                     [] out = "again" -> "loop"
                     [] OTHER -> "returned"
         /\ presult' = None
         /\ pobs' = [pobs EXCEPT
                !.terminal = out \notin {"sleep", "again"},
                !.n_other = IF out = "again" THEN Min(@ + 1, MaxGets) ELSE @,
                !.downloads = IF out = "download" THEN @ + 1 ELSE @,
                !.url = IF out = "download" THEN a.sample ELSE @,
                !.answer = a,
                !.why = IF out \in {"download", "sleep", "again"} THEN @ ELSE out]
    /\ UNCHANGED <<start_time, timeout, wait_time, submit_vars, gen_vars, post_vars>>

\* the Pending branch: time.sleep(wait_time), then the backoff
PollSleep ==
    /\ ppc = "sleep"
    /\ now' = TAdd(now, wait_time)
    /\ wait_time' = NextWaitTime(wait_time)
    /\ ppc' = "loop"
    /\ pobs' = [pobs EXCEPT !.n_pending = @ + 1, !.last_sleep = wait_time]
    /\ UNCHANGED <<start_time, timeout, presult, submit_vars, gen_vars, post_vars>>

\* the download is answered after d seconds: return the content or None
PollDownload ==
    /\ ppc = "download"
    /\ \E d \in 0..MaxLatency, a \in DownloadAnswers :
         LET out == DownloadOutcome(a) IN
         /\ now' = TAdd(now, Seconds(d))
         /\ presult' = IF out = "ready" THEN Bytes(a.content) ELSE None
         /\ pobs' = [pobs EXCEPT !.why = out, !.dl = a]
    /\ ppc' = "returned"
    /\ UNCHANGED <<start_time, timeout, wait_time, submit_vars, gen_vars, post_vars>>

\* no call of _poll_for_result has been made
PollIdle ==
    /\ ppc = "idle"
    /\ now \in StartTimes
    /\ start_time = <<0, 0>>
    /\ timeout = 0
    /\ wait_time = <<0, 0>>
    /\ presult = None
    /\ pobs = NoObs

---------------------------------------------------------------------------
(* The asset workflow: catalogue, files, images *)

\* class AssetType
YETI_SPRITE == "yeti_sprite"
ITEM_SPRITE == "item_sprite"
ENVIRONMENT == "environment"
STYLE_GUIDE == "style_guide"

\* class AssetSpec.  variations = None is the empty sequence, batch_group =
\* None and reference_image_path = None are Absent; the description and the
\* aspect ratio only shape the prompt and are left out.
AssetSpec(name, type, size, variations, batch_group, model) ==
    [name |-> name, type |-> type, size |-> size, variations |-> variations,
     batch_group |-> batch_group, model |-> model,
     reference_image_path |-> Absent]

\* the suffix that marks an image whose background was removed
NoBgSuffix == "_no_bg"
\* the name of the style guide
StyleName == "style_reference"
\* the names of the two animation frames
Frame1Name == "yeti_run_frame1_left_foot_forward" \o NoBgSuffix
Frame2Name == "yeti_run_frame3_both_feet_contact" \o NoBgSuffix

\* _load_asset_specs: the catalogue the constructor loads
LoadedSpecs ==
    << AssetSpec(StyleName, STYLE_GUIDE, <<512, 512>>, <<>>, Absent, PRO_1_1),
       AssetSpec(Frame1Name, YETI_SPRITE, <<60, 60>>, <<>>, "yeti", KONTEXT_PRO),
       AssetSpec(Frame2Name, YETI_SPRITE, <<60, 60>>, <<>>, "yeti", KONTEXT_PRO),
       AssetSpec("yeti_jump" \o NoBgSuffix, YETI_SPRITE, <<60, 60>>, <<>>,
                 "yeti", KONTEXT_PRO),
       AssetSpec("yeti_cheer" \o NoBgSuffix, YETI_SPRITE, <<60, 60>>, <<>>,
                 "yeti", KONTEXT_PRO),
       AssetSpec("yeti_stumble" \o NoBgSuffix, YETI_SPRITE, <<60, 60>>, <<>>,
                 "yeti", KONTEXT_PRO),
       AssetSpec("pipeline_track", ENVIRONMENT, <<128, 32>>, <<>>, Absent,
                 KONTEXT_PRO),
       AssetSpec("background", ENVIRONMENT, <<480, 320>>, <<>>, Absent,
                 KONTEXT_PRO),
       AssetSpec("ui_frame", ENVIRONMENT, <<160, 32>>, <<>>, Absent,
                 KONTEXT_PRO) >>

\* a catalogue a caller has assigned to asset_specs, with what AssetSpec
\* allows and the loaded catalogue does not use: a spec with variations
VariedSpecs ==
    << AssetSpec(StyleName, STYLE_GUIDE, <<512, 512>>, <<>>, Absent, PRO_1_1),
       AssetSpec("coin", ITEM_SPRITE, <<32, 32>>, <<"gold", "silver">>,
                 "items", PRO_1_1),
       AssetSpec("gem", ITEM_SPRITE, <<32, 32>>, <<>>, "items", PRO_1_1) >>

\* a catalogue a caller has assigned, with a spec in the batch group
\* "yeti_run", the group the usage text names and the loaded catalogue does
\* not have
RunSpecs ==
    << AssetSpec(StyleName, STYLE_GUIDE, <<512, 512>>, <<>>, Absent, PRO_1_1),
       AssetSpec(Frame1Name, YETI_SPRITE, <<60, 60>>, <<>>, "yeti_run",
                 KONTEXT_PRO) >>

Catalogues == {LoadedSpecs, VariedSpecs, RunSpecs}

\* the batch groups generate_batch is called with
BatchGroups == {"yeti", "items", "yeti_run", "none"}

\* Stem with a fault: the variation is left out of the file name.
\* Stem: filename = f"{spec.name}{f'_{variation}' if variation else ''}.png";
\* no variation is the empty string
Stem_drops_variation(name, variation) == name
Stem(name, variation) ==
    IF variation # "" THEN name \o "_" \o variation ELSE name
FileName(stem) == stem \o ".png"

\* the stems of the files of the output directory, in the order the
\* directory lists them
BaseStems ==
    << StyleName, "background", "pipeline_track", "ui_frame", "coin",
       "coin_gold", "coin_silver", "gem", "yeti_run_frame1_left_foot_forward",
       "yeti_run_frame3_both_feet_contact", "yeti_jump", "yeti_cheer",
       "yeti_stumble" >>
Range(seq) == {seq[i] : i \in 1..Len(seq)}
StemOrder == BaseStems \o [i \in 1..Len(BaseStems) |-> BaseStems[i] \o NoBgSuffix]
FileNames == {FileName(st) : st \in Range(StemOrder)}

\* "_no_bg" in stem, for the stems above
HasNoBg(stem) == \E b \in Range(BaseStems) : stem = b \o NoBgSuffix

\* The content of a file or of a response.  Bytes("png-1") is an image a
\* decoder accepts (RGB, 512 x 512), Bytes("junk") is not an image,
\* Bytes("") is empty.  Png is an image written by post_process_image.
Decodable == {"png-1"}
\* sharpened counts the passes of the SHARPEN filter over the pixels, of
\* names the content the pixels come from.
Png(colours, size, sharpened, of) ==
    [kind |-> "png", mode |-> colours, size |-> size, sharpened |-> sharpened,
     of |-> of]
\* a file that was in the directory before the run
OldFile == Png("RGBA", <<60, 60>>, 1, "old")
\* the file open(path, "wb") leaves when nothing was written
EmptyFile == Bytes("")

\* Python truth of an Optional[bytes]: None and b"" are false
Truthy(data) == data # None /\ data # Bytes("")

\* Image.open accepts the content: a file this program wrote, or a
\* response that is an image
CanOpen(data) ==
    \/ data.kind = "png"
    \/ data.kind = "bytes" /\ data.content \in Decodable

\* the size Image.open(...).size gives
SizeOf(data) == IF data.kind = "png" THEN data.size ELSE <<512, 512>>

\* the mode Image.open(...).mode gives
ModeOf(data) == IF data.kind = "png" THEN data.mode ELSE "RGB"

\* the passes of the SHARPEN filter the decoded pixels have been through
SharpenedOf(data) == IF data.kind = "png" THEN data.sharpened ELSE 0

\* the content the decoded pixels come from
OriginOf(data) == IF data.kind = "png" THEN data.of ELSE data.content

\* if img.mode != "RGBA": img = img.convert("RGBA")
ToRGBA(colours) == IF colours # "RGBA" THEN "RGBA" ELSE colours

\* img.resize(target_size, Image.LANCZOS) raises unless both sides are
\* positive
Resizable(target_size) == target_size[1] > 0 /\ target_size[2] > 0

\* if target_size[0] <= 64 and target_size[1] <= 64: a pass of SHARPEN
Sharpen(passes, target_size) ==
    IF target_size[1] <= 64 /\ target_size[2] <= 64
    THEN passes + 1 ELSE passes

\* post_process_image with a fault: the decoded image is not converted
post_process_image_keeps_mode(image_data, target_size) ==
    IF CanOpen(image_data) /\ Resizable(target_size)
    THEN Png(ModeOf(image_data), target_size,
             Sharpen(SharpenedOf(image_data), target_size),
             OriginOf(image_data))
    ELSE None

\* post_process_image: decode, convert to RGBA, resize to the target,
\* sharpen when both sides are at most 64, encode as PNG; None when any of
\* it raises
post_process_image(image_data, target_size) ==
    IF CanOpen(image_data) /\ Resizable(target_size)
    THEN Png(ToRGBA(ModeOf(image_data)), target_size,
             Sharpen(SharpenedOf(image_data), target_size),
             OriginOf(image_data))
    ELSE None

\* the images post_process_image is given when it is called on its own:
\* encoded images of four colour modes and three sizes, a response that is
\* an image, one that is not, and an empty one
ColourModes == {"RGB", "RGBA", "L", "P"}
ImageSizes == {<<1, 1>>, <<64, 64>>, <<300, 200>>}
InputImages ==
    {Png(m, sz, 0, "in") : m \in ColourModes, sz \in ImageSizes}
    \cup {Bytes("png-1"), Bytes("junk"), Bytes("")}
\* the target sizes: those of the catalogue, one that is not square, one
\* with one side over 64 and one with an empty side
TargetSizes ==
    {<<32, 32>>, <<64, 64>>, <<512, 512>>, <<1024, 256>>, <<64, 65>>, <<0, 64>>}

\* no call of post_process_image is running
IdlePost ==
    [pc |-> "idle", image_data |-> None, target_size |-> <<0, 0>>,
     first |-> None, second |-> None]

\* post_process_image(image_data, target_size) is about to be called
PostCall(image_data, target_size) ==
    [IdlePost EXCEPT !.pc = "call", !.image_data = image_data,
                     !.target_size = target_size]

\* first = post_process_image(image_data, target_size)
PostProcess ==
    /\ pp.pc = "call"
    /\ pp' = [pp EXCEPT
                !.pc = "once",
                !.first = post_process_image(pp.image_data, pp.target_size)]
    /\ UNCHANGED <<submit_vars, poll_vars, gen_vars>>

\* second = post_process_image(first, target_size), the function applied to
\* what it returned
PostProcessAgain ==
    /\ pp.pc = "once"
    /\ pp.first # None
    /\ pp' = [pp EXCEPT
                !.pc = "twice",
                !.second = post_process_image(pp.first, pp.target_size)]
    /\ UNCHANGED <<submit_vars, poll_vars, gen_vars>>

\* _encode_image_to_base64 of a file's content
B64(data) == [kind |-> "b64", of |-> data]

\* os.path.exists / Path.exists of a file of the output directory
Exists(dir, file) == dir[file] # None

\* the directories a run starts with: empty; the style guide only; the
\* style guide as an earlier run whose write failed has left it, an empty
\* file; the style guide and two assets of an earlier run
EmptyDir == [f \in FileNames |-> None]
InitialDirs ==
    { EmptyDir,
      [EmptyDir EXCEPT ![FileName(StyleName)] = OldFile],
      [EmptyDir EXCEPT ![FileName(StyleName)] = EmptyFile],
      [EmptyDir EXCEPT ![FileName(StyleName)] = OldFile,
                       ![FileName("background")] = OldFile,
                       ![FileName("coin_gold")] = OldFile,
                       ![FileName("yeti_jump" \o NoBgSuffix)] = OldFile] }

---------------------------------------------------------------------------
(* The asset workflow: one call of generate_asset or remove_background *)

\* no call is running
IdleAsset ==
    [pc |-> "idle", fn |-> "", name |-> "", variation |-> "", target |-> "",
     size |-> <<0, 0>>, model |-> KONTEXT_PRO, ref |-> Absent,
     reference_image |-> None, input_image |-> None, task |-> None,
     image_data |-> None,
     processed |-> None, posts |-> 0, gets |-> 0, downloads |-> 0,
     submit_http |-> "", retries |-> 0, pendings |-> 0, status |-> NoAnswer,
     dl |-> NoDownload, stages |-> <<>>, result |-> FALSE, why |-> ""]

\* generate_asset(spec, variation) is entered
AssetCall(spec, variation) ==
    [IdleAsset EXCEPT
        !.pc = "encode", !.fn = "generate_asset",
        !.name = spec.name, !.variation = variation,
        !.target = FileName(Stem(spec.name, variation)),
        !.size = spec.size, !.model = spec.model,
        !.ref = spec.reference_image_path]

\* remove_background(image_path, output_path) is entered, the image exists
RemoveCall(stem) ==
    [IdleAsset EXCEPT
        !.pc = "encode", !.fn = "remove_background",
        !.name = stem, !.target = FileName(stem \o NoBgSuffix),
        !.ref = FileName(stem)]

\* generate_image(prompt, model, "1:1", reference_image) is called on its
\* own
ImageCall(model, reference_image) ==
    [IdleAsset EXCEPT
        !.pc = "submit", !.fn = "generate_image",
        !.model = model, !.reference_image = reference_image]

\* the reference images generate_image is called with on its own: none, the
\* empty string, an encoded image
ReferenceImages == {None, B64(Bytes("")), B64(Bytes("png-1"))}

\* Python truth of an Optional[str]: None and "", the encoding of an empty
\* file, are false
NonEmpty(reference_image) ==
    reference_image # None /\ reference_image # B64(Bytes(""))

\* InputImage with a fault: the reference is attached whatever the model
InputImage_any_model(model, reference_image) ==
    IF NonEmpty(reference_image) THEN reference_image ELSE None

\* data["input_image"] of the body of the POST, None when the body has no
\* such key: if reference_image and model in [KONTEXT_PRO, KONTEXT_MAX]
InputImage(model, reference_image) ==
    IF NonEmpty(reference_image) /\ model \in {KONTEXT_PRO, KONTEXT_MAX}
    THEN reference_image ELSE None

\* edit_image(input_image_path, edit_prompt, output_name, model) is entered
EditCall(input, output_name, model) ==
    [IdleAsset EXCEPT
        !.pc = "submit", !.fn = "edit_image",
        !.name = output_name, !.target = FileName(output_name),
        !.model = model, !.ref = input]

\* the images edit_image is called on, by their stem
EditStems == {StyleName, "background"}

\* output_name = f"{base_name}_edited" when none is given
EditedName(stem) == stem \o "_edited"

\* remove_background runs in a try that turns every exception into a
\* return of False; generate_asset has no try
Guarded(fn) == fn = "remove_background"

\* a step of the call raises
Fail(c, why) ==
    IF Guarded(c.fn)
    THEN [c EXCEPT !.pc = "returned", !.result = FALSE, !.why = why]
    ELSE [c EXCEPT !.pc = "raised", !.why = why]

\* what one submission of the workflow is answered: at most GenMaxRetries
\* answers 429, then a final answer
GenScripts == {sc \in Scripts("single", 0) : sc.k <= GenMaxRetries}

\* the download answers of the workflow: also a 200 whose content is not an
\* image, or is empty
GenDownloadAnswers ==
    DownloadAnswers \cup
    {[http |-> "200", content |-> "junk"], [http |-> "200", content |-> ""]}

\* the status answers that end the loop of _poll_for_result
TerminalAnswers ==
    {a \in StatusAnswers : StatusOutcome(a) \notin {"sleep", "again"}}

\* what _poll_for_result returns on a terminal status answer and the answer
\* to the download, if one is made
PollResult(a, d) ==
    IF StatusOutcome(a) = "download" /\ DownloadOutcome(d) = "ready"
    THEN Bytes(d.content)
    ELSE None

\* AfterSubmit with a fault: the poller is called whatever was returned
AfterSubmit_always_polls(task_info) == "poll"

\* generate_image: if not task_info: return None
AfterSubmit(task_info) == IF task_info = None THEN "returned" ELSE "poll"

\* generate_asset: if not image_data: return False
AfterPoll(image_data) == IF Truthy(image_data) THEN "process" ELSE "returned"

\* what the caller of generate_image does with what it returned:
\* generate_asset and remove_background go on to post_process_image,
\* edit_image writes the bytes as they are, a direct caller has its value
AfterImage(fn, image_data) ==
    CASE fn = "generate_image" -> "returned"
      [] fn = "edit_image" ->
           IF Truthy(image_data) THEN "persist" ELSE "returned"
      [] OTHER -> AfterPoll(image_data)

\* AfterProcess with a fault: the file is written whatever was returned
AfterProcess_always_persists(processed_data) == "persist"

\* generate_asset: if not processed_data: return False
AfterProcess(processed_data) ==
    IF Truthy(processed_data) THEN "persist" ELSE "returned"

\* reference_image = self._encode_image_to_base64(path) when the spec has a
\* reference and the file exists; remove_background also opens the image
\* for its size.  The read raises when the file cannot be read.
AssetEncode ==
    /\ cur.pc = "encode"
    /\ \E readable \in BOOLEAN :
         LET has == cur.ref # Absent /\ Exists(output_dir, cur.ref)
             opens == cur.fn = "generate_asset" \/ CanOpen(output_dir[cur.ref])
         IN cur' = CASE has /\ ~readable -> Fail(cur, "read")
                     [] has /\ ~opens -> Fail(cur, "open")
                     [] has -> [cur EXCEPT
                            !.pc = "submit",
                            !.reference_image = B64(output_dir[cur.ref]),
                            !.size = IF cur.fn = "generate_asset" THEN @
                                     ELSE SizeOf(output_dir[cur.ref])]
                     [] OTHER -> [cur EXCEPT !.pc = "submit"]
    /\ UNCHANGED <<asset_specs, output_dir, orch, hist, submit_vars, poll_vars, post_vars>>

\* generate_image: task_info = self._submit_generation_request(...), a whole
\* call with its retries.  The 429 answers are fewer than the ceiling, so
\* the rate-limit wait passes and the call returns, leaving active_requests
\* as it found it.  Every POST of the call, the retries included, has the
\* same body.
AssetSubmit ==
    /\ cur.pc = "submit"
    /\ \E sc \in GenScripts :
         LET task_info == Returned(sc.final, sc.body, base_url) IN
         cur' = [cur EXCEPT
                   !.stages = Append(@, "submit"),
                   !.posts = sc.k + 1,
                   !.retries = sc.k,
                   !.input_image = InputImage(cur.model, cur.reference_image),
                   !.submit_http = sc.final,
                   !.task = task_info,
                   !.pc = AfterSubmit(task_info),
                   !.why = IF AfterSubmit(task_info) = "returned"
                           THEN "submit" ELSE @]
    /\ UNCHANGED <<asset_specs, output_dir, orch, hist, submit_vars, poll_vars, post_vars>>

\* generate_image: return self._poll_for_result(task_info), a whole call:
\* n answers that keep the loop going, then a terminal answer and perhaps
\* the download, or the timeout
AssetPoll ==
    /\ cur.pc = "poll"
    /\ \E n \in 0..GenMaxPending, a \in TerminalAnswers,
          d \in GenDownloadAnswers, timed_out \in BOOLEAN :
         LET down == ~timed_out /\ StatusOutcome(a) = "download"
             image_data == IF timed_out \/ cur.task = None
                           THEN None ELSE PollResult(a, d)
         IN
         /\ timed_out => n >= 1
         /\ (down \/ d = [http |-> RAISES, content |-> ""])
         /\ cur' = [cur EXCEPT
                   !.stages = Append(@, "poll"),
                   !.pendings = n,
                   !.gets = IF timed_out THEN n ELSE n + 1,
                   !.status = IF timed_out THEN NoAnswer ELSE a,
                   !.downloads = IF down THEN 1 ELSE 0,
                   !.dl = IF down THEN d ELSE NoDownload,
                   !.image_data = image_data,
                   !.pc = AfterImage(cur.fn, image_data),
                   !.why = IF AfterImage(cur.fn, image_data) = "returned"
                           THEN "poll" ELSE @]
    /\ UNCHANGED <<asset_specs, output_dir, orch, hist, submit_vars, poll_vars, post_vars>>

\* processed_data = self.post_process_image(image_data, spec.size)
AssetProcess ==
    /\ cur.pc = "process"
    /\ LET processed_data == post_process_image(cur.image_data, cur.size) IN
       cur' = [cur EXCEPT
                 !.stages = Append(@, "process"),
                 !.processed = processed_data,
                 !.pc = AfterProcess(processed_data),
                 !.why = IF AfterProcess(processed_data) = "returned"
                         THEN "process" ELSE @]
    /\ UNCHANGED <<asset_specs, output_dir, orch, hist, submit_vars, poll_vars, post_vars>>

\* with open(filepath, "wb") as f: f.write(processed_data); return True.
\* open may raise, and leaves the directory as it was; write may raise
\* after open has created or emptied the file.
AssetPersist ==
    /\ cur.pc = "persist"
    /\ \E w \in {"ok", "open_fails", "write_fails"} :
         /\ output_dir' =
              CASE w = "ok" ->
                     [output_dir EXCEPT ![cur.target] =
                        IF cur.fn = "edit_image"
                        THEN cur.image_data ELSE cur.processed]
                [] w = "write_fails" -> [output_dir EXCEPT ![cur.target] = EmptyFile]
                [] OTHER -> output_dir
         /\ cur' = IF w = "ok"
                   THEN [cur EXCEPT !.stages = Append(@, "persist"),
                                    !.pc = "returned", !.result = TRUE]
                   ELSE Fail([cur EXCEPT !.stages = Append(@, "persist")], w)
    /\ UNCHANGED <<asset_specs, orch, hist, submit_vars, poll_vars, post_vars>>

---------------------------------------------------------------------------
(* The asset workflow: the operations that call generate_asset *)

\* time.sleep(3) after an asset of generate_batch
sleep_batch == 3
\* time.sleep(3) between the two frames of the animation sequence
sleep_frames == 3
\* time.sleep(5) after the style guide of generate_all_improved
sleep_style == 5
\* time.sleep(5) after the animation sequence of generate_all_improved
sleep_animation == 5
\* time.sleep(3) after a yeti pose of generate_all_improved
sleep_pose == 3
\* time.sleep(3) after an environment asset of generate_all_improved
sleep_environment == 3
\* time.sleep(3) after an image of batch_remove_backgrounds
sleep_remove == 3

\* no operation is running.  ret is the returned truth value of the
\* operations that return one; batch_remove_backgrounds returns
\* success_count.  reference is the reference_image_path given to
\* generate_style_guide_first.
IdleOrch ==
    [op |-> "", pc |-> "idle", group |-> "", items |-> <<>>,
     success_count |-> 0, ret |-> FALSE, reference |-> Absent]

\* nothing observed: the targets and the references of the calls made, the
\* values they returned, whether a call has ended, the seconds slept since
\* the last one ended, and the directory as the last call found it
NoHist ==
    [attempts |-> <<>>, refs |-> <<>>, results |-> <<>>, prev |-> FALSE,
     slept |-> 0, before |-> EmptyDir]

\* a call of generate_asset or remove_background is made
Start(call) ==
    /\ cur' = call
    /\ hist' = [hist EXCEPT !.attempts = Append(@, call.target),
                            !.refs = Append(@, call.ref),
                            !.before = output_dir]

\* SleepAfter with a fault: the sleep is skipped after a failed asset
SleepAfter_success_only(seconds, ok) == IF ok THEN seconds ELSE 0

\* time.sleep(seconds) after a call that returned ok
SleepAfter(seconds, ok) == seconds

\* the call has returned ok and the operation sleeps
End(ok, seconds) ==
    /\ cur' = IdleAsset
    /\ hist' = [hist EXCEPT !.results = Append(@, ok), !.prev = TRUE,
                            !.slept = seconds]

\* for spec in batch_specs: the variations of a spec if it has any, else
\* the spec itself
RECURSIVE Items(_)
Items(specs) ==
    IF specs = <<>> THEN <<>>
    ELSE LET spec == Head(specs) IN
         (IF spec.variations # <<>>
          THEN [j \in 1..Len(spec.variations) |->
                  [spec |-> spec, variation |-> spec.variations[j]]]
          ELSE << [spec |-> spec, variation |-> ""] >>)
         \o Items(Tail(specs))

\* [spec for spec in self.asset_specs if spec.batch_group == batch_group]
BatchSpecs(specs, group) ==
    SelectSeq(specs, LAMBDA spec : spec.batch_group = group)

\* "frame" in spec.name, for the names of the catalogues
HasFrame(name) == name \in {Frame1Name, Frame2Name}

\* the yeti poses and the environment specs of generate_all_improved
OtherYetiSpecs(specs) ==
    SelectSeq(specs, LAMBDA spec : spec.type = YETI_SPRITE /\ ~HasFrame(spec.name))
EnvSpecs(specs) == SelectSeq(specs, LAMBDA spec : spec.type = ENVIRONMENT)

\* FrameSpec with a fault: frame 2 is chained to the output of frame 1
FrameSpec_chains(name) ==
    [AssetSpec(name, YETI_SPRITE, <<60, 60>>, <<>>, Absent, KONTEXT_PRO)
        EXCEPT !.reference_image_path =
                 IF name = Frame2Name
                 THEN FileName(Frame1Name) ELSE FileName(StyleName)]

\* the two frame specs of _generate_animation_sequence_simplified
FrameSpec(name) ==
    [AssetSpec(name, YETI_SPRITE, <<60, 60>>, <<>>, Absent, KONTEXT_PRO)
        EXCEPT !.reference_image_path = FileName(StyleName)]

\* SetStyleReference with a fault: the environment specs are given the
\* reference too
SetStyleReference_all(specs, style_path) ==
    [k \in DOMAIN specs |->
       CASE specs[k].type \in {YETI_SPRITE, ENVIRONMENT} ->
              [specs[k] EXCEPT !.reference_image_path = style_path,
                               !.model = KONTEXT_PRO]
         [] specs[k].type = ITEM_SPRITE ->
              [specs[k] EXCEPT !.reference_image_path = Absent,
                               !.model = PRO_1_1]
         [] OTHER -> specs[k]]

\* for asset_spec in self.asset_specs: the yeti sprites get style_path as
\* their reference and KONTEXT_PRO as their model, the item sprites no
\* reference and PRO_1_1
SetStyleReference(specs, style_path) ==
    [k \in DOMAIN specs |->
       CASE specs[k].type = YETI_SPRITE ->
              [specs[k] EXCEPT !.reference_image_path = style_path,
                               !.model = KONTEXT_PRO]
         [] specs[k].type = ITEM_SPRITE ->
              [specs[k] EXCEPT !.reference_image_path = Absent,
                               !.model = PRO_1_1]
         [] OTHER -> specs[k]]

\* the assignments of setup_style_guide_references, the style guide being
\* output_dir / "style_reference.png"
StyleGuideReferences(specs) == SetStyleReference(specs, FileName(StyleName))

\* ---- setup_style_guide_references

\* the style guide is there: the assignments, return True; it is not:
\* return False
SetupStyleGuideReferences ==
    /\ orch.pc = "idle"
    /\ LET found == Exists(output_dir, FileName(StyleName)) IN
       /\ asset_specs' = IF found THEN StyleGuideReferences(asset_specs)
                         ELSE asset_specs
       /\ orch' = [orch EXCEPT !.op = "setup_style_guide_references",
                               !.pc = "done", !.ret = found]
    /\ UNCHANGED <<output_dir, cur, hist, submit_vars, poll_vars, post_vars>>

\* main calls setup_style_guide_references, whose result it does not look
\* at, before generate_batch and before generate_asset
CanStart ==
    \/ orch.pc = "idle"
    \/ orch.op = "setup_style_guide_references" /\ orch.pc = "done"

\* ---- generate_style_guide_first

\* style_specs = [the specs of type STYLE_GUIDE]; with none of them the
\* loop is empty and the call returns False
StyleGuideFirst ==
    /\ orch.pc = "idle"
    /\ \E reference_image_path \in {Absent, FileName("background")} :
         LET style_specs ==
               SelectSeq(asset_specs, LAMBDA spec : spec.type = STYLE_GUIDE)
         IN orch' = [orch EXCEPT
                       !.op = "generate_style_guide_first",
                       !.reference = reference_image_path,
                       !.items = Items(style_specs),
                       !.pc = IF style_specs = <<>> THEN "done"
                              ELSE "style_first_loop"]
    /\ UNCHANGED <<asset_specs, output_dir, cur, hist, submit_vars, poll_vars, post_vars>>

\* if reference_image_path and os.path.exists(reference_image_path): the
\* spec gets it as its reference and KONTEXT_PRO as its model; then
\* self.generate_asset(spec)
StyleFirstGenerate ==
    /\ orch.pc = "style_first_loop" /\ orch.items # <<>>
    /\ LET name == Head(orch.items).spec.name
           given == orch.reference # Absent
                      /\ Exists(output_dir, orch.reference)
           specs == [k \in DOMAIN asset_specs |->
                       IF asset_specs[k].name = name /\ given
                       THEN [asset_specs[k] EXCEPT
                               !.reference_image_path = orch.reference,
                               !.model = KONTEXT_PRO]
                       ELSE asset_specs[k]]
           spec == specs[CHOOSE k \in DOMAIN specs : specs[k].name = name]
       IN /\ asset_specs' = specs
          /\ Start(AssetCall(spec, ""))
    /\ orch' = [orch EXCEPT !.pc = "style_first_wait"]
    /\ UNCHANGED <<output_dir, submit_vars, poll_vars, post_vars>>

\* if self.generate_asset(spec): the assignments with the file of the spec
\* as style_path, return True; else the next style spec; after the last
\* one, return False
AfterStyleFirst ==
    /\ orch.pc = "style_first_wait" /\ cur.pc = "returned"
    /\ asset_specs' =
         IF cur.result
         THEN SetStyleReference(asset_specs, FileName(cur.name))
         ELSE asset_specs
    /\ orch' = CASE cur.result ->
                    [orch EXCEPT !.pc = "done", !.ret = TRUE, !.items = <<>>]
                [] Tail(orch.items) = <<>> ->
                    [orch EXCEPT !.pc = "done", !.ret = FALSE, !.items = <<>>]
                [] OTHER ->
                    [orch EXCEPT !.pc = "style_first_loop", !.items = Tail(@)]
    /\ End(cur.result, 0)
    /\ UNCHANGED <<output_dir, submit_vars, poll_vars, post_vars>>

\* ---- one call of generate_asset

GenerateAsset ==
    /\ CanStart
    /\ \E i \in DOMAIN asset_specs :
         \E variation \in {""} \cup Range(asset_specs[i].variations) :
           Start(AssetCall(asset_specs[i], variation))
    /\ orch' = [orch EXCEPT !.op = "generate_asset", !.pc = "asset_wait",
                            !.ret = FALSE]
    /\ UNCHANGED <<asset_specs, output_dir, submit_vars, poll_vars, post_vars>>

GenerateAssetReturn ==
    /\ orch.pc = "asset_wait" /\ cur.pc = "returned"
    /\ orch' = [orch EXCEPT !.pc = "done", !.ret = cur.result]
    /\ End(cur.result, 0)
    /\ UNCHANGED <<asset_specs, output_dir, submit_vars, poll_vars, post_vars>>

\* ---- one call of generate_image

GenerateImage ==
    /\ orch.pc = "idle"
    /\ \E model \in FluxModel, reference_image \in ReferenceImages :
         cur' = ImageCall(model, reference_image)
    /\ orch' = [orch EXCEPT !.op = "generate_image", !.pc = "image_wait"]
    /\ UNCHANGED <<asset_specs, output_dir, hist, submit_vars, poll_vars, post_vars>>

\* generate_image has returned its bytes or None
GenerateImageReturn ==
    /\ orch.pc = "image_wait" /\ cur.pc = "returned"
    /\ orch' = [orch EXCEPT !.pc = "done", !.ret = Truthy(cur.image_data)]
    /\ UNCHANGED <<asset_specs, output_dir, cur, hist, submit_vars, poll_vars, post_vars>>

\* ---- one call of edit_image

\* if the input is missing, return False; the input is encoded, which
\* raises when the file cannot be read; the prompt is built from
\* self.style_base, which raises AttributeError when the generator has no
\* such attribute; then generate_image is called with the encoded input
EditImage ==
    /\ orch.pc = "idle"
    /\ \E stem \in EditStems, model \in FluxModel, readable \in BOOLEAN :
         LET input == FileName(stem)
             call == EditCall(input, EditedName(stem), model)
         IN cur' =
              CASE ~Exists(output_dir, input) ->
                     [call EXCEPT !.pc = "returned", !.why = "missing"]
                [] ~readable -> Fail(call, "read")
                [] ~HasAttr("style_base") ->
                     Fail([call EXCEPT
                             !.reference_image = B64(output_dir[input])],
                          "AttributeError")
                [] OTHER ->
                     [call EXCEPT !.reference_image = B64(output_dir[input])]
    /\ orch' = [orch EXCEPT !.op = "edit_image", !.pc = "edit_wait"]
    /\ UNCHANGED <<asset_specs, output_dir, hist, submit_vars, poll_vars, post_vars>>

\* edit_image has returned True or False
EditImageReturn ==
    /\ orch.pc = "edit_wait" /\ cur.pc = "returned"
    /\ orch' = [orch EXCEPT !.pc = "done", !.ret = cur.result]
    /\ UNCHANGED <<asset_specs, output_dir, cur, hist, submit_vars, poll_vars, post_vars>>

\* ---- generate_batch

\* the group is selected: no spec, return False; group "yeti_run", return
\* self._generate_animation_sequence(batch_specs[0]), which raises
\* AttributeError as the class has no such method; else the loop
GenerateBatch ==
    /\ CanStart
    /\ \E batch_group \in BatchGroups :
         LET batch_specs == BatchSpecs(asset_specs, batch_group) IN
         orch' = [orch EXCEPT
                    !.op = "generate_batch", !.group = batch_group,
                    !.ret = FALSE,
                    !.items = Items(batch_specs),
                    !.pc = CASE batch_specs = <<>> -> "done"
                             [] batch_group = "yeti_run"
                                  /\ ~HasAttr("_generate_animation_sequence")
                                  -> "raised"
                             [] OTHER -> "batch_loop"]
    /\ UNCHANGED <<asset_specs, output_dir, cur, hist, submit_vars, poll_vars, post_vars>>

\* self.generate_asset(spec, variation) or self.generate_asset(spec)
BatchGenerate ==
    /\ orch.pc = "batch_loop" /\ orch.items # <<>>
    /\ Start(AssetCall(Head(orch.items).spec, Head(orch.items).variation))
    /\ orch' = [orch EXCEPT !.pc = "batch_wait"]
    /\ UNCHANGED <<asset_specs, output_dir, submit_vars, poll_vars, post_vars>>

\* NextItems with a fault: a failed asset ends the loop
NextItems_stops_on_failure(items, ok) == IF ok THEN Tail(items) ELSE <<>>

\* the for loop goes on with the next spec or variation, whatever the call
\* returned
NextItems(items, ok) == Tail(items)

\* if the call returned True: success_count += 1; then time.sleep(3)
BatchSleep ==
    /\ orch.pc = "batch_wait" /\ cur.pc = "returned"
    /\ orch' = [orch EXCEPT
                  !.pc = "batch_loop", !.items = NextItems(@, cur.result),
                  !.success_count = IF cur.result THEN @ + 1 ELSE @]
    /\ End(cur.result, SleepAfter(sleep_batch, cur.result))
    /\ UNCHANGED <<asset_specs, output_dir, submit_vars, poll_vars, post_vars>>

\* BatchResult with a fault: a batch that attempted its assets is a success
BatchResult_any_attempt(success_count) == success_count >= 0

\* return success_count > 0
BatchResult(success_count) == success_count > 0

\* the loop is over
BatchReturn ==
    /\ orch.pc = "batch_loop" /\ orch.items = <<>>
    /\ orch' = [orch EXCEPT !.pc = "done", !.ret = BatchResult(orch.success_count)]
    /\ UNCHANGED <<asset_specs, output_dir, cur, hist, submit_vars, poll_vars, post_vars>>

\* ---- the animation sequence

\* SequenceReturns with a fault: a failed animation ends
\* generate_all_improved
SequenceReturns_aborts(o, ok) ==
    IF o.op = "generate_yeti_animation_only" \/ ~ok
    THEN [o EXCEPT !.pc = "done", !.ret = ok]
    ELSE [o EXCEPT !.pc = "after_animation"]

\* the sequence returns ok: to the caller of generate_yeti_animation_only,
\* or into generate_all_improved, which goes on whatever it returned
SequenceReturns(o, ok) ==
    IF o.op = "generate_yeti_animation_only"
    THEN [o EXCEPT !.pc = "done", !.ret = ok]
    ELSE [o EXCEPT !.pc = "after_animation"]

\* generate_yeti_animation_only: return False when the style guide is not
\* there, else the sequence
AnimationOnly ==
    /\ orch.pc = "idle"
    /\ orch' = [orch EXCEPT
                  !.op = "generate_yeti_animation_only",
                  !.pc = IF Exists(output_dir, FileName(StyleName))
                         THEN "frame1" ELSE "done"]
    /\ UNCHANGED <<asset_specs, output_dir, cur, hist, submit_vars, poll_vars, post_vars>>

\* self.generate_asset(frame1_spec)
Frame1 ==
    /\ orch.pc = "frame1"
    /\ Start(AssetCall(FrameSpec(Frame1Name), ""))
    /\ orch' = [orch EXCEPT !.pc = "frame1_wait"]
    /\ UNCHANGED <<asset_specs, output_dir, submit_vars, poll_vars, post_vars>>

\* if not ...: return False; else time.sleep(3)
AfterFrame1 ==
    /\ orch.pc = "frame1_wait" /\ cur.pc = "returned"
    /\ orch' = IF cur.result THEN [orch EXCEPT !.pc = "frame2"]
               ELSE SequenceReturns(orch, FALSE)
    /\ End(cur.result, IF cur.result THEN sleep_frames ELSE 0)
    /\ UNCHANGED <<asset_specs, output_dir, submit_vars, poll_vars, post_vars>>

\* self.generate_asset(frame2_spec)
Frame2 ==
    /\ orch.pc = "frame2"
    /\ Start(AssetCall(FrameSpec(Frame2Name), ""))
    /\ orch' = [orch EXCEPT !.pc = "frame2_wait"]
    /\ UNCHANGED <<asset_specs, output_dir, submit_vars, poll_vars, post_vars>>

\* if not ...: return False; return True
AfterFrame2 ==
    /\ orch.pc = "frame2_wait" /\ cur.pc = "returned"
    /\ orch' = SequenceReturns(orch, cur.result)
    /\ End(cur.result, 0)
    /\ UNCHANGED <<asset_specs, output_dir, submit_vars, poll_vars, post_vars>>

\* ---- generate_all_improved

\* the loop over the yeti poses, then the loop over the environment specs,
\* then the end
PoseLoop(o, specs) ==
    CASE OtherYetiSpecs(specs) # <<>> ->
           [o EXCEPT !.pc = "pose_loop", !.items = Items(OtherYetiSpecs(specs))]
      [] EnvSpecs(specs) # <<>> ->
           [o EXCEPT !.pc = "environment_loop", !.items = Items(EnvSpecs(specs))]
      [] OTHER -> [o EXCEPT !.pc = "done", !.items = <<>>]

\* step 1: the style guide is there, or it is generated
GenerateAllImproved ==
    /\ orch.pc = "idle"
    /\ IF Exists(output_dir, FileName(StyleName))
       THEN /\ orch' = [orch EXCEPT !.op = "generate_all_improved", !.pc = "frame1"]
            /\ UNCHANGED <<cur, hist>>
       ELSE /\ orch' = [orch EXCEPT !.op = "generate_all_improved", !.pc = "style_wait"]
            /\ LET style_spec ==
                     asset_specs[CHOOSE i \in DOMAIN asset_specs :
                         /\ asset_specs[i].type = STYLE_GUIDE
                         /\ \A j \in 1..(i - 1) : asset_specs[j].type # STYLE_GUIDE]
               IN Start(AssetCall(style_spec, ""))
    /\ UNCHANGED <<asset_specs, output_dir, submit_vars, poll_vars, post_vars>>

\* if not self.generate_asset(style_spec): return; else time.sleep(5)
AfterStyle ==
    /\ orch.pc = "style_wait" /\ cur.pc = "returned"
    /\ orch' = [orch EXCEPT !.pc = IF cur.result THEN "frame1" ELSE "done"]
    /\ End(cur.result, IF cur.result THEN sleep_style ELSE 0)
    /\ UNCHANGED <<asset_specs, output_dir, submit_vars, poll_vars, post_vars>>

\* step 2 is over, whatever the sequence returned: time.sleep(5), step 3
AfterAnimation ==
    /\ orch.pc = "after_animation"
    /\ orch' = PoseLoop(orch, asset_specs)
    /\ hist' = [hist EXCEPT !.slept = @ + sleep_animation]
    /\ UNCHANGED <<asset_specs, output_dir, cur, submit_vars, poll_vars, post_vars>>

\* spec.reference_image_path = str(style_path); self.generate_asset(spec)
Pose ==
    /\ orch.pc = "pose_loop" /\ orch.items # <<>>
    /\ LET spec == [Head(orch.items).spec EXCEPT
                      !.reference_image_path = FileName(StyleName)]
       IN /\ asset_specs' =
               [k \in DOMAIN asset_specs |->
                  IF asset_specs[k].name = spec.name
                  THEN [asset_specs[k] EXCEPT
                          !.reference_image_path = FileName(StyleName)]
                  ELSE asset_specs[k]]
          /\ Start(AssetCall(spec, ""))
    /\ orch' = [orch EXCEPT !.pc = "pose_wait"]
    /\ UNCHANGED <<output_dir, submit_vars, poll_vars, post_vars>>

\* time.sleep(3); after the last pose, step 5
AfterPose ==
    /\ orch.pc = "pose_wait" /\ cur.pc = "returned"
    /\ orch' = IF Tail(orch.items) # <<>>
               THEN [orch EXCEPT !.pc = "pose_loop", !.items = Tail(@)]
               ELSE IF EnvSpecs(asset_specs) # <<>>
               THEN [orch EXCEPT !.pc = "environment_loop",
                                 !.items = Items(EnvSpecs(asset_specs))]
               ELSE [orch EXCEPT !.pc = "done", !.items = <<>>]
    /\ End(cur.result, SleepAfter(sleep_pose, cur.result))
    /\ UNCHANGED <<asset_specs, output_dir, submit_vars, poll_vars, post_vars>>

\* self.generate_asset(spec) of an environment spec
Environment ==
    /\ orch.pc = "environment_loop" /\ orch.items # <<>>
    /\ Start(AssetCall(Head(orch.items).spec, ""))
    /\ orch' = [orch EXCEPT !.pc = "environment_wait"]
    /\ UNCHANGED <<asset_specs, output_dir, submit_vars, poll_vars, post_vars>>

\* time.sleep(3); after the last one, the end
AfterEnvironment ==
    /\ orch.pc = "environment_wait" /\ cur.pc = "returned"
    /\ orch' = IF Tail(orch.items) # <<>>
               THEN [orch EXCEPT !.pc = "environment_loop", !.items = Tail(@)]
               ELSE [orch EXCEPT !.pc = "done", !.items = <<>>]
    /\ End(cur.result, SleepAfter(sleep_environment, cur.result))
    /\ UNCHANGED <<asset_specs, output_dir, submit_vars, poll_vars, post_vars>>

\* ---- batch_remove_backgrounds

\* the images of the output directory without "_no_bg" in their stem
FilesToProcess(dir) ==
    SelectSeq(StemOrder, LAMBDA st : Exists(dir, FileName(st)) /\ ~HasNoBg(st))

\* return 0 when there is nothing to process, else the loop
BatchRemoveBackgrounds ==
    /\ orch.pc = "idle"
    /\ orch' = [orch EXCEPT
                  !.op = "batch_remove_backgrounds",
                  !.items = FilesToProcess(output_dir),
                  !.pc = IF FilesToProcess(output_dir) = <<>>
                         THEN "done" ELSE "remove_loop"]
    /\ UNCHANGED <<asset_specs, output_dir, cur, hist, submit_vars, poll_vars, post_vars>>

\* self.remove_background(str(png_file), str(output_path))
Remove ==
    /\ orch.pc = "remove_loop" /\ orch.items # <<>>
    /\ Start(RemoveCall(Head(orch.items)))
    /\ orch' = [orch EXCEPT !.pc = "remove_wait"]
    /\ UNCHANGED <<asset_specs, output_dir, submit_vars, poll_vars, post_vars>>

\* success_count += 1 if it returned True; time.sleep(3); after the last
\* image, return success_count
AfterRemove ==
    /\ orch.pc = "remove_wait" /\ cur.pc = "returned"
    /\ orch' = [orch EXCEPT
                  !.pc = IF Tail(orch.items) # <<>> THEN "remove_loop" ELSE "done",
                  !.items = Tail(@),
                  !.success_count = IF cur.result THEN @ + 1 ELSE @]
    /\ End(cur.result, SleepAfter(sleep_remove, cur.result))
    /\ UNCHANGED <<asset_specs, output_dir, submit_vars, poll_vars, post_vars>>

\* ---- an exception leaves generate_asset: none of its callers catches it
Propagate ==
    /\ cur.pc = "raised" /\ orch.pc \notin {"done", "raised"}
    /\ orch' = [orch EXCEPT !.pc = "raised"]
    /\ UNCHANGED <<asset_specs, output_dir, cur, hist, submit_vars, poll_vars, post_vars>>

\* no operation of the workflow has been called
GenIdle ==
    /\ asset_specs = LoadedSpecs
    /\ output_dir = EmptyDir
    /\ orch = IdleOrch
    /\ cur = IdleAsset
    /\ hist = NoHist

---------------------------------------------------------------------------
(* Specifications *)

Init ==
    /\ GeneratorInit(Regions)
    /\ mode = "single"
    /\ quota429 = 0
    /\ threads = SetToBag({IdleThread})
    /\ PollIdle /\ now = <<0, 0>>
    /\ GenIdle
    /\ pp = IdlePost

ConcInit ==
    /\ GeneratorInit({"global"})
    /\ mode = "conc"
    /\ quota429 = ConcMaxRetries
    /\ threads = [t \in {IdleThread} |-> NumThreads]
    /\ PollIdle /\ now = <<0, 0>>
    /\ GenIdle
    /\ pp = IdlePost

PollInit ==
    /\ GeneratorInit({"global"})
    /\ mode = "single"
    /\ quota429 = 0
    /\ threads = SetToBag({IdleThread})
    /\ PollIdle
    /\ GenIdle
    /\ pp = IdlePost

\* a generator whose catalogue is the loaded one or one a caller assigned,
\* in an output directory that is empty or holds files of an earlier run
GenInit ==
    /\ GeneratorInit({"global"})
    /\ mode = "single"
    /\ quota429 = 0
    /\ threads = SetToBag({IdleThread})
    /\ PollIdle /\ now = <<0, 0>>
    /\ asset_specs \in Catalogues
    /\ output_dir \in InitialDirs
    /\ orch = IdleOrch
    /\ cur = IdleAsset
    /\ hist = NoHist
    /\ pp = IdlePost

\* post_process_image is called on its own with one of the images and one
\* of the target sizes
PostInit ==
    /\ GeneratorInit({"global"})
    /\ mode = "single"
    /\ quota429 = 0
    /\ threads = SetToBag({IdleThread})
    /\ PollIdle /\ now = <<0, 0>>
    /\ GenIdle
    /\ pp \in {PostCall(i, t) : i \in InputImages, t \in TargetSizes}

Next ==
    \/ \E t \in ThreadSet : Call(t)
    \/ \E t \in ThreadSet : WaitSleep(t)
    \/ \E t \in ThreadSet : WaitPass(t)
    \/ \E t \in ThreadSet : Post(t)
    \/ \E t \in ThreadSet : Respond(t)
    \/ \E t \in ThreadSet : Retry(t)
    \/ \E t \in ThreadSet : Finally(t)

PollNext ==
    \/ PollCall
    \/ PollRequest
    \/ PollTimeout
    \/ PollAnswer
    \/ PollSleep
    \/ PollDownload

GenNext ==
    \/ SetupStyleGuideReferences
    \/ StyleGuideFirst
    \/ StyleFirstGenerate
    \/ AfterStyleFirst
    \/ GenerateImage
    \/ GenerateImageReturn
    \/ EditImage
    \/ EditImageReturn
    \/ GenerateAsset
    \/ GenerateAssetReturn
    \/ GenerateBatch
    \/ BatchGenerate
    \/ BatchSleep
    \/ BatchReturn
    \/ AnimationOnly
    \/ Frame1
    \/ AfterFrame1
    \/ Frame2
    \/ AfterFrame2
    \/ GenerateAllImproved
    \/ AfterStyle
    \/ AfterAnimation
    \/ Pose
    \/ AfterPose
    \/ Environment
    \/ AfterEnvironment
    \/ BatchRemoveBackgrounds
    \/ Remove
    \/ AfterRemove
    \/ AssetEncode
    \/ AssetSubmit
    \/ AssetPoll
    \/ AssetProcess
    \/ AssetPersist
    \/ Propagate

PostNext ==
    \/ PostProcess
    \/ PostProcessAgain

\* one sequential caller of _submit_generation_request
Spec == Init /\ [][Next]_vars
\* NumThreads concurrent callers of _submit_generation_request
ConcSpec == ConcInit /\ [][Next]_vars
\* one call of _poll_for_result
PollSpec == PollInit /\ [][PollNext]_vars
\* one operation of the asset workflow
GenSpec == GenInit /\ [][GenNext]_vars
\* post_process_image applied to an image, and again to its result
PostSpec == PostInit /\ [][PostNext]_vars

---------------------------------------------------------------------------
(* The submitter: properties *)

\* the one caller of the sequential runs
T == CHOOSE t \in ThreadSet : TRUE

\* the slots of the rate budget a caller holds: one per frame that has
\* incremented active_requests and not yet decremented it
SlotsHeld(t) ==
    t.depth + (IF t.pc \in {"inflight", "sleep429", "finally"} THEN 1 ELSE 0)

InCall(t) == t.pc \in {"wait", "acquire", "inflight", "sleep429", "finally"}

\* C1: with a single caller, active_requests is never negative and never
\* exceeds the ceiling of the model being submitted: 6 for KONTEXT_MAX, 24
\* for every other model.
C1_ActiveWithinCeiling ==
    /\ active_requests >= 0
    /\ \A t \in ThreadSet :
         InCall(t) =>
            active_requests <= (IF t.model = "flux-kontext-max" THEN 6 ELSE 24)

\* C1 witness: a KONTEXT_MAX submission whose POST is in flight with the
\* count at its ceiling (after five 429 answers).
C1_Witness ==
    \E t \in ThreadSet :
        t.model = KONTEXT_MAX /\ t.pc = "inflight" /\ active_requests = 6

\* C2: when the outermost call has returned, whatever the exit path,
\* active_requests equals its value immediately before the call.
C2_SlotReleased ==
    \A t \in ThreadSet : t.pc = "done" => active_requests = t.before

\* C2 witness: a call that returned through the except clause after two
\* 429 answers.
C2_Witness ==
    \E t \in ThreadSet :
        t.pc = "done" /\ t.answer = RAISES /\ t.n429 = 2 /\ active_requests = t.before

\* a step of the caller other than one more sleep of the rate-limit wait
Progress(t) == WaitPass(t) \/ Post(t) \/ Respond(t) \/ Retry(t) \/ Finally(t)

\* C3: a submission answered k >= 1 times 429 and then 200 (with a body that
\* has an id) terminates with a handle: while it runs it can always take a
\* step other than sleeping in the rate-limit wait (whose condition only
\* another caller could change), and what it returns is a handle.
C3_RetriesTerminate ==
    (T.k + T.n429 >= 1 /\ T.final = "200" /\ ParseOk(T.body)) =>
        /\ InCall(T) => ENABLED Progress(T)
        /\ T.pc = "done" => T.result.kind = "handle"

\* C4: once the endpoint has answered 402, another status than 200 and 429,
\* or the transport has raised, the call returns None without another POST
\* and without another sleep: every POST but the last was answered 429, and
\* every sleep followed a 429.
C4_FailsWithoutRetry ==
    \A t \in ThreadSet :
        t.answer \in {"402", "500", RAISES} =>
            /\ t.pc \in {"finally", "done"}
            /\ t.result = None
            /\ t.posts = t.n429 + 1
            /\ t.sleeps = t.n429
            /\ t.waits = 0

\* C4 witness: a call answered 402 at once has returned after one POST and
\* no sleep.
C4_Witness ==
    \E t \in ThreadSet :
        t.pc = "done" /\ t.answer = "402" /\ t.posts = 1 /\ t.sleeps = 0

\* C5: a handle is returned on HTTP 200 only; it carries the id of the
\* answer, and the polling_url of the answer when that is present and not
\* empty, else base_url + "/v1/get_result?id=" + id.
C5_HandleOfAnswer ==
    \A t \in ThreadSet :
        t.pc = "done" =>
            /\ t.result.kind = "handle" <=> (t.answer = "200" /\ ParseOk(t.body))
            /\ t.result.kind = "handle" =>
                 /\ t.result.id = t.body.id
                 /\ t.result.polling_url =
                      (IF t.body.polling_url \notin {Absent, ""}
                       THEN t.body.polling_url
                       ELSE base_url \o "/v1/get_result?id=" \o t.body.id)

\* C5 witness: a 200 answer with an empty polling_url gives the constructed
\* URL.
C5_Witness ==
    \E t \in ThreadSet :
        /\ t.pc = "done" /\ t.answer = "200" /\ t.body.polling_url = ""
        /\ t.result = Handle("job-1", "https://api.eu.bfl.ai/v1/get_result?id=job-1")

\* the POST calls of a set of models that are in flight
InFlight(models) ==
    LET S == {t \in ThreadSet : t.pc = "inflight" /\ t.model \in models}
        count[U \in SUBSET S] ==
            IF U = {} THEN 0
            ELSE LET u == CHOOSE x \in U : TRUE
                 IN CopiesIn(u, threads) + count[U \ {u}]
    IN count[S]

\* C6: with concurrent callers the POST calls in flight never exceed the
\* ceiling: 24 in all, 6 for KONTEXT_MAX.
C6_InFlightWithinCeiling ==
    /\ InFlight(FluxModel) <= 24
    /\ InFlight({KONTEXT_MAX}) <= 6

\* the slots held by the callers whose model has the same ceiling as model
HeldByClass(model) ==
    LET S == {t \in ThreadSet : max_requests(t.model) = max_requests(model)}
        count[U \in SUBSET S] ==
            IF U = {} THEN 0
            ELSE LET u == CHOOSE x \in U : TRUE
                 IN CopiesIn(u, threads) * SlotsHeld(u) + count[U \ {u}]
    IN count[S]

\* C7: the budget is kept per model class: a submission waits exactly while
\* the requests of its own class are at or above the ceiling of that class.
C7_BudgetPerClass ==
    \A t \in ThreadSet :
        t.pc = "wait" =>
            (RateLimited(active_requests, t.model)
                <=> HeldByClass(t.model) >= max_requests(t.model))

---------------------------------------------------------------------------
(* The poller: properties *)

\* the rational num / den, for den a power of 5 up to FracDen
Frac(num, den) == <<num \div den, (num % den) * (FracDen \div den)>>

\* min(2 * 1.2^n, 15) in closed form; 2 * 1.2^n is above 15 from n = 12 on
Backoff(n) ==
    IF n >= 12 \/ 2 * 6^n >= 15 * 5^n
    THEN Seconds(15)
    ELSE Frac(2 * 6^n, 5^n)

\* C8: a call that never gets a terminal answer (Ready, Error, Content
\* Moderated, a status other than 200, an exception) returns None once the
\* time elapsed since the start of the loop has reached timeout, and a
\* status request is sent only while the elapsed time is below timeout.
C8_TimesOut ==
    /\ [](ppc = "returned" /\ ~pobs.terminal =>
            /\ presult = None
            /\ pobs.why = "timeout"
            /\ ~TLess(Elapsed, Seconds(timeout)))
    /\ [][/\ ppc = "loop" /\ ~TLess(Elapsed, Seconds(timeout)) =>
                ppc' = "returned" /\ presult' = None /\ pobs'.gets = pobs.gets
          /\ ppc' = "status" => TLess(Elapsed, Seconds(timeout))]_vars

\* C8 witness: a call with the default timeout that was answered Pending
\* and statuses the code does not name, and has returned.
C8_Witness ==
    /\ ppc = "returned" /\ ~pobs.terminal /\ timeout = default_timeout
    /\ pobs.n_pending >= 2 /\ pobs.n_other >= 1
    /\ presult = None

C10_BackoffSequence ==
    /\ [](ppc # "idle" =>
            /\ wait_time = Backoff(pobs.n_pending)
            /\ pobs.n_pending >= 1 => pobs.last_sleep = Backoff(pobs.n_pending - 1)
            /\ ~TLess(Seconds(15), wait_time)
            /\ ~TLess(wait_time, Seconds(2)))
    /\ [][ppc # "idle" =>
            /\ ~TLess(wait_time', wait_time)
            /\ wait_time' # wait_time =>
                 ppc = "sleep" /\ pobs'.n_pending = pobs.n_pending + 1]_vars

\* C10 witness: the 14th Pending answer was slept on for 15 seconds, the
\* 12th for 2 * 1.2^11 seconds.
C10_Witness ==
    /\ pobs.n_pending = 14 /\ pobs.last_sleep = Seconds(15)
    /\ Backoff(11) = Frac(2 * 6^11, 5^11) /\ pobs.n_other >= 1

\* the status answers that end the call without an image: an exception of
\* the request, an HTTP status other than 200, a rejected generation
Failing(a) ==
    \/ a.http # "200"
    \/ a.status \in {"Error", "Content Moderated"}

\* C11: when the status request raises, is answered with an HTTP status
\* other than 200, or reports Error or Content Moderated, the call returns
\* None at once, whatever time remains: no download is made, and no request
\* follows the return.
C11_FailureEndsPolling ==
    /\ [][(ppc = "status" /\ Failing(pobs'.answer)) =>
             /\ ppc' = "returned" /\ presult' = None
             /\ pobs'.gets = pobs.gets /\ pobs'.downloads = pobs.downloads]_vars
    /\ [][ppc = "returned" =>
             pobs'.gets = pobs.gets /\ pobs'.downloads = pobs.downloads]_vars
    /\ [](ppc = "returned" /\ Failing(pobs.answer) =>
             presult = None /\ pobs.downloads = 0)

\* C11 witness: a call with the default timeout, answered Pending and then
\* Error, has returned with time to spare.
C11_Witness ==
    /\ ppc = "returned" /\ pobs.answer.status = "Error"
    /\ pobs.n_pending >= 1 /\ pobs.gets >= 2
    /\ timeout = default_timeout /\ LoopGuard(Elapsed, timeout)

\* a Ready answer: HTTP 200 with status Ready
IsReady(a) == a.http = "200" /\ a.status = "Ready"

\* C12: on the first Ready answer the call downloads result.sample once and
\* polls no more; it returns the downloaded content when the download is
\* answered 200, and None, with no further status request and no further
\* download, when the download is answered otherwise, raises, or the
\* answer has no result.sample.
C12_ReadyDownloadsOnce ==
    /\ [][(ppc = "status" /\ IsReady(pobs'.answer)) =>
             IF pobs'.answer.sample = Absent
             THEN /\ ppc' = "returned" /\ presult' = None
                  /\ pobs'.downloads = 0
             ELSE /\ ppc' = "download"
                  /\ pobs'.downloads = 1 /\ pobs'.url = pobs'.answer.sample]_vars
    /\ [][ppc = "download" =>
             /\ ppc' = "returned"
             /\ pobs'.gets = pobs.gets /\ pobs'.downloads = pobs.downloads
             /\ presult' = IF pobs'.dl.http = "200"
                           THEN Bytes(pobs'.dl.content) ELSE None]_vars
    /\ [][ppc = "returned" => UNCHANGED <<ppc, presult, pobs>>]_vars
    /\ [](pobs.downloads <= 1 /\ (presult # None => pobs.dl.http = "200"))

\* C12 witness: a call answered Pending and then Ready has downloaded the
\* sample and returned its content.
C12_Witness ==
    /\ ppc = "returned" /\ IsReady(pobs.answer) /\ pobs.n_pending >= 1
    /\ pobs.downloads = 1 /\ pobs.url = "https://img/1"
    /\ presult = Bytes("png-1")

\* C12 witness of the failing download: the sample was downloaded once, the
\* download was answered 404, and the call returned None.
C12_WitnessFailed ==
    /\ ppc = "returned" /\ pobs.downloads = 1 /\ pobs.dl.http = "404"
    /\ presult = None

---------------------------------------------------------------------------
(* Properties of the asset workflow *)

\* s is an initial segment of t
IsPrefix(s, t) == Len(s) <= Len(t) /\ s = SubSeq(t, 1, Len(s))

\* the stages of generate_asset, in their order
Stages == <<"submit", "poll", "process", "persist">>
Ran(stage) == stage \in Range(cur.stages)

\* C13: in a call of generate_asset the stages run in the order submit,
\* poll, post-process, persist, each only after the one before succeeded:
\* a status request only after a submission answered 200 that gave a
\* handle, post_process_image only on the bytes a download answered 200
\* after a Ready status, the write only with what post-processing returned.
C13_StagesInOrder ==
    cur.fn = "generate_asset" =>
      /\ IsPrefix(cur.stages, Stages)
      /\ (Ran("poll") \/ cur.gets > 0) =>
            cur.submit_http = "200" /\ cur.task # None /\ cur.posts >= 1
      /\ Ran("process") =>
            /\ IsReady(cur.status) /\ cur.dl.http = "200"
            /\ cur.image_data = Bytes(cur.dl.content)
      /\ Ran("persist") =>
            /\ cur.processed # None
            /\ cur.processed = post_process_image(cur.image_data, cur.size)

\* C13 witness: a call that was submitted twice (429, then 200), polled
\* twice, and ran all four stages.
C13_Witness ==
    /\ cur.fn = "generate_asset" /\ cur.pc = "returned" /\ cur.result
    /\ cur.stages = Stages /\ cur.posts = 2 /\ cur.gets = 2

\* a stage of the call failed: the submission gave no handle, the poll (its
\* status requests, its timeout, its download) gave no image, or
\* post-processing gave nothing
StageFailed ==
    \/ Ran("submit") /\ cur.task = None
    \/ Ran("poll") /\ ~Truthy(cur.image_data)
    \/ Ran("process") /\ ~Truthy(cur.processed)

\* C14: when the submission, the poll or the post-processing of a call of
\* generate_asset fails, the call returns False and the output directory
\* is as the call found it: no file created, none overwritten or emptied.
C14_FailureLeavesDirectory ==
    (cur.fn = "generate_asset" /\ StageFailed) =>
      /\ cur.pc = "returned" /\ cur.result = FALSE
      /\ output_dir = hist.before
      /\ ~Ran("persist")

\* C14 witness: the post-processing of a call whose target file exists has
\* failed, and the file is the old one.
C14_Witness ==
    /\ cur.fn = "generate_asset" /\ cur.pc = "returned" /\ ~cur.result
    /\ cur.why = "process" /\ output_dir[cur.target] = OldFile

\* the happy case of a call of generate_asset: the submission was answered
\* 200 at once and gave a handle, the first status answer was Ready, the
\* download was answered 200 with an image and post-processing succeeded
HappyPath ==
    /\ cur.fn = "generate_asset"
    /\ cur.retries = 0 /\ cur.submit_http = "200" /\ cur.task # None
    /\ cur.pendings = 0 /\ IsReady(cur.status)
    /\ cur.dl.http = "200" /\ Truthy(cur.processed)

\* the call has made one POST, one status GET and one download
OneOfEach == cur.posts = 1 /\ cur.gets = 1 /\ cur.downloads = 1

\* the file <name>.png, or <name>_<variation>.png, of the output directory
\* holds the downloaded image as an RGBA image of the size of the spec
Written ==
    /\ cur.variation = "" => cur.target = cur.name \o ".png"
    /\ cur.variation # "" =>
          cur.target = cur.name \o "_" \o cur.variation \o ".png"
    /\ output_dir[cur.target] = cur.processed
    /\ cur.processed.kind = "png" /\ cur.processed.mode = "RGBA"
    /\ cur.processed.size = cur.size /\ cur.processed.of = cur.dl.content

ExpectedAttempts(specs, group) ==
    CASE group = "yeti" /\ Len(specs) = Len(LoadedSpecs) ->
           << FileName(Frame1Name), FileName(Frame2Name),
              "yeti_jump_no_bg.png", "yeti_cheer_no_bg.png",
              "yeti_stumble_no_bg.png" >>
      [] group = "items" /\ Len(specs) = Len(VariedSpecs) ->
           << "coin_gold.png", "coin_silver.png", "gem.png" >>
      [] OTHER -> <<>>

\* generate_batch has returned
BatchDone == orch.op = "generate_batch" /\ orch.pc = "done"

\* C16: generate_batch returns True exactly when one of the calls of
\* generate_asset it made returned True; it returns False when all of them
\* returned False and when the group has no spec, in which case it makes
\* no call.
C16_BatchResult ==
    BatchDone =>
      /\ orch.ret <=> \E i \in DOMAIN hist.results : hist.results[i]
      /\ Len(hist.results) = Len(hist.attempts)
      /\ ExpectedAttempts(asset_specs, orch.group) = <<>> =>
            ~orch.ret /\ hist.attempts = <<>>

\* C16 witness: a batch of three calls of which one returned True and one
\* False has returned True.
C16_Witness ==
    /\ BatchDone /\ orch.ret /\ Len(hist.results) = 3
    /\ \E i, j \in DOMAIN hist.results : hist.results[i] /\ ~hist.results[j]

\* C16 witness of the failed batch: all five calls returned False, and so
\* did the batch.
C16_WitnessFailed ==
    /\ BatchDone /\ ~orch.ret /\ Len(hist.results) = 5
    /\ \A i \in DOMAIN hist.results : ~hist.results[i]

\* C17: in generate_batch a call of generate_asset that returns False, at
\* whatever stage it failed, does not end the batch: the calls made are
\* always the first ones of the specs and variations of the group in
\* catalogue order, each made once, and when the batch returns all of them
\* have been made.
C17_BatchAttemptsAll ==
    orch.op = "generate_batch" =>
      /\ IsPrefix(hist.attempts, ExpectedAttempts(asset_specs, orch.group))
      /\ orch.pc = "done" =>
            hist.attempts = ExpectedAttempts(asset_specs, orch.group)
      /\ (orch.pc = "batch_loop" /\ orch.items # <<>>) =>
            Len(hist.attempts) + Len(orch.items)
               = Len(ExpectedAttempts(asset_specs, orch.group))

\* C17 witness: the first two calls of a batch with variations returned
\* False, and the third was made all the same and failed at its submission.
C17_Witness ==
    /\ orch.op = "generate_batch" /\ orch.pc = "batch_wait"
    /\ hist.results = <<FALSE, FALSE>>
    /\ hist.attempts = <<"coin_gold.png", "coin_silver.png", "gem.png">>
    /\ cur.pc = "returned" /\ cur.why = "submit"

\* C18 as claimed: generate_asset always returns a boolean; no exception
\* leaves it, whatever fails: the requests, the responses, the decoding,
\* the read of the reference image, the write of the output file.
C18_NoExceptionEscapes ==
    cur.fn = "generate_asset" => cur.pc # "raised"

\* C19: in generate_batch, generate_all_improved, the animation sequence
\* and batch_remove_backgrounds, a call of generate_asset or
\* remove_background that follows another one is made only after the
\* operation has slept at least 3 seconds since that one ended, whether it
\* returned True or False.
C19_SleepBetweenAssets ==
    [][(cur.pc = "idle" /\ cur'.pc = "encode" /\ hist.prev) =>
          hist.slept >= 3]_vars

\* C19 witness: in generate_batch a call has returned False, and the next
\* one is started after the 3 seconds slept since.
C19_Witness ==
    /\ cur.pc = "encode" /\ hist.prev /\ hist.slept = 3
    /\ ~hist.results[Len(hist.results)]
    /\ orch.op = "generate_batch"

\* C19 witness in generate_all_improved: the first frame has returned False,
\* and the first yeti pose is started after the 5 seconds that follow the
\* animation step.
C19_WitnessAll ==
    /\ cur.pc = "encode" /\ hist.prev /\ hist.slept = 5
    /\ ~hist.results[Len(hist.results)]
    /\ hist.attempts[Len(hist.attempts) - 1] = FileName(Frame1Name)
    /\ orch.op = "generate_all_improved"

\* the files of the two frames and of the style guide
Frame1File == FileName(Frame1Name)
Frame2File == FileName(Frame2Name)
StyleFile == FileName(StyleName)

\* the operation runs the animation sequence
InSequence ==
    orch.op \in {"generate_yeti_animation_only", "generate_all_improved"}

---------------------------------------------------------------------------
(* post_process_image on its own *)

\* C21: whatever the colour mode and the size of the image given and
\* whatever the target size, what a successful post_process_image returns
\* is an RGBA image whose width and height are those of the target, and
\* post_process_image applied to that result with the same target succeeds
\* and returns an image of the same mode and the same dimensions.
C21_PostProcessRGBATarget ==
    /\ (pp.pc \in {"once", "twice"} /\ pp.first # None) =>
          /\ CanOpen(pp.first)
          /\ ModeOf(pp.first) = "RGBA"
          /\ SizeOf(pp.first) = pp.target_size
    /\ pp.pc = "twice" =>
          /\ pp.second # None
          /\ ModeOf(pp.second) = ModeOf(pp.first)
          /\ SizeOf(pp.second) = SizeOf(pp.first)

\* a palette image of another size than the target has been processed
\* twice, with a target that is sharpened
C21_Witness ==
    /\ pp.pc = "twice"
    /\ pp.image_data = Png("P", <<300, 200>>, 0, "in")
    /\ pp.target_size = <<64, 64>>
    /\ pp.second = Png("RGBA", <<64, 64>>, 2, "in")

\* a target that is not sharpened: a response image resized to 1024 x 256
C21_WitnessLarge ==
    /\ pp.pc = "twice"
    /\ pp.image_data = Bytes("png-1")
    /\ pp.second = Png("RGBA", <<1024, 256>>, 0, "png-1")

---------------------------------------------------------------------------
(* The slots of one sequential caller *)

\* C22: with one sequential caller, active_requests is 1 whenever a POST is
\* in flight, also the POST of a retry after a 429, and 0 whenever no call
\* of _submit_generation_request is running: a submission holds one slot.
C22_OneSlotPerSubmission ==
    \A t \in ThreadSet :
        /\ t.pc = "inflight" => active_requests = 1
        /\ t.pc \in {"idle", "done"} => active_requests = 0

---------------------------------------------------------------------------
(* The pace of the status requests *)

\* C23: within one call of _poll_for_result a status request that was
\* answered is followed by another one only after a sleep of the backoff:
\* the sleep lasts at least 2 seconds and no less than the sleep before it,
\* whatever the status of the HTTP 200 answer was (Pending, a string the
\* code does not know, or no status field).
C23_SleepBetweenRequests ==
    [][/\ ppc = "status" => ppc' # "loop"
       /\ ppc = "sleep" =>
            /\ ~TLess(TSub(now', now), Seconds(initial_wait_time))
            /\ pobs.n_pending >= 1 =>
                 ~TLess(TSub(now', now), pobs.last_sleep)]_vars

---------------------------------------------------------------------------
(* The time a call that only sees Pending takes *)

\* the sleeps of the first n Pending answers, added up
RECURSIVE TotalSleep(_)
TotalSleep(n) ==
    IF n = 0 THEN Seconds(0) ELSE TAdd(TotalSleep(n - 1), Backoff(n - 1))

\* the status requests took no time and were all answered Pending: the time
\* that has passed since start_time is the time slept
OnlyPendingInstantly ==
    /\ pobs.n_other = 0
    /\ Elapsed = TotalSleep(pobs.n_pending)

\* C30: when every status request is answered Pending and takes no time,
\* _poll_for_result returns None by its timeout, having slept no less than
\* timeout seconds and less than timeout + 15 seconds in all.
C30_PendingUntilTimeout ==
    /\ (ppc = "returned" /\ pobs.why = "timeout" /\ OnlyPendingInstantly) =>
          /\ presult = None
          /\ ~TLess(TotalSleep(pobs.n_pending), Seconds(timeout))
          /\ TLess(TotalSleep(pobs.n_pending),
                   Seconds(timeout + max_wait_time))
    /\ (ppc = "loop" /\ OnlyPendingInstantly
            /\ ~TLess(TotalSleep(pobs.n_pending), Seconds(timeout))) =>
          ~ENABLED PollRequest

\* the default timeout of 300 seconds has ended a call that saw Pending
\* only, answered at once, after more than twelve sleeps
C30_Witness ==
    /\ ppc = "returned" /\ pobs.why = "timeout" /\ OnlyPendingInstantly
    /\ timeout = default_timeout
    /\ pobs.n_pending > 12
    /\ TLess(Seconds(timeout), TotalSleep(pobs.n_pending))

\* the same with the short timeout: 2 + 2.4 + 2.88 seconds were slept
C30_WitnessShort ==
    /\ ppc = "returned" /\ pobs.why = "timeout" /\ OnlyPendingInstantly
    /\ timeout = ShortTimeout
    /\ pobs.n_pending = 3

---------------------------------------------------------------------------
(* The body of the submission *)

\* a submission of the running call has been made
Submitted == cur.posts >= 1

\* C24: the body of a submission has the key input_image exactly when the
\* reference image passed is not empty and the model is KONTEXT_PRO or
\* KONTEXT_MAX, and its value is then that reference image; for PRO_1_1,
\* PRO and DEV the body has no input_image whatever reference was passed,
\* and the request is sent all the same.
C24_InputImageIffKontext ==
    /\ Submitted =>
         /\ cur.input_image # None <=>
              (NonEmpty(cur.reference_image)
                 /\ cur.model \in {KONTEXT_PRO, KONTEXT_MAX})
         /\ cur.input_image # None => cur.input_image = cur.reference_image
         /\ cur.model \in {PRO_1_1, PRO, DEV} => cur.input_image = None
    /\ ~Submitted => cur.input_image = None
    /\ (cur.pc = "submit" /\ cur.model \in {PRO_1_1, PRO, DEV}) =>
          ENABLED AssetSubmit

\* a reference image was passed with the model DEV and the request was
\* sent without it
C24_Witness ==
    /\ Submitted /\ cur.model = DEV
    /\ cur.reference_image = B64(Bytes("png-1"))
    /\ cur.input_image = None
    /\ cur.submit_http = "200"

\* a reference image was passed with KONTEXT_MAX and the body carries it
C24_WitnessAttached ==
    /\ Submitted /\ cur.model = KONTEXT_MAX
    /\ cur.input_image = B64(Bytes("png-1"))

\* an empty reference was passed with KONTEXT_PRO and the body has no
\* input_image
C24_WitnessEmpty ==
    /\ Submitted /\ cur.model = KONTEXT_PRO
    /\ cur.reference_image = B64(Bytes(""))
    /\ cur.input_image = None

---------------------------------------------------------------------------
(* edit_image *)

\* the image edit_image was called on was there
EditInputExisted == cur.fn = "edit_image" /\ cur.why # "missing"

\* C29: edit_image never raises; called on an image that exists it makes
\* one submission with that image attached, and it returns True, the file
\* output_dir/<output_name>.png written, exactly when the generation
\* returned data, and False otherwise.
C29_EditImageReturns ==
    cur.fn = "edit_image" =>
        /\ cur.pc # "raised"
        /\ (cur.pc = "returned" /\ EditInputExisted) =>
             /\ cur.posts >= 1
             /\ cur.model \in {KONTEXT_PRO, KONTEXT_MAX} =>
                  cur.input_image = B64(output_dir[cur.ref])
             /\ cur.result <=> Truthy(cur.image_data)
             /\ cur.result => output_dir[cur.target] = cur.image_data

\* edit_image was called on an image that exists and can be read, and it
\* has raised before any submission
C29_EditRaisedUnsubmitted ==
    /\ cur.fn = "edit_image" /\ cur.pc = "raised"
    /\ cur.why = "AttributeError"
    /\ cur.posts = 0
    /\ orch.pc = "raised"

---------------------------------------------------------------------------
(* generate_batch("yeti_run") *)

\* generate_batch("yeti_run") has ended
RunBatchEnded ==
    /\ orch.op = "generate_batch" /\ orch.group = "yeti_run"
    /\ orch.pc \in {"done", "raised"}

\* C28: generate_batch("yeti_run") takes the path of the animation
\* sequence: it returns, the two frames of the run animation have been
\* attempted, and what it returns is what the sequence returned, True
\* exactly when both frames were generated.
C28_RunBatchGeneratesFrames ==
    RunBatchEnded =>
        /\ orch.pc = "done"
        /\ hist.attempts # <<>>
        /\ hist.attempts[1] = FileName(Frame1Name)
        /\ orch.ret <=> (hist.results = <<TRUE, TRUE>>)

\* with the loaded catalogue generate_batch("yeti_run") has returned False
\* without a call of generate_asset
C28_RunBatchEmpty ==
    /\ RunBatchEnded /\ asset_specs = LoadedSpecs
    /\ orch.pc = "done" /\ ~orch.ret
    /\ hist.attempts = <<>>

\* with a catalogue that has the group, generate_batch("yeti_run") has
\* raised without a call of generate_asset
C28_RunBatchRaised ==
    /\ RunBatchEnded /\ asset_specs = RunSpecs
    /\ orch.pc = "raised"
    /\ hist.attempts = <<>>

---------------------------------------------------------------------------
(* generate_all_improved *)

\* the files generate_asset(spec) writes for the specs of a list
Targets(specs) == [i \in 1..Len(specs) |-> FileName(specs[i].name)]

\* the calls of steps 3 and 5: the yeti poses that are no frames, then the
\* environment specs
PosesAndEnvironment ==
    Targets(OtherYetiSpecs(asset_specs)) \o Targets(EnvSpecs(asset_specs))

\* the first call was that of the style guide
Styled == hist.attempts # <<>> /\ hist.attempts[1] = StyleFile

\* the call of the style guide has returned False
StyleFailed == Styled /\ hist.results # <<>> /\ ~hist.results[1]

\* C25: generate_all_improved calls generate_asset for the style guide
\* exactly when style_reference.png is not there, as its first call and
\* only once; when that call returns False it returns and makes no other
\* call; otherwise a call that returns False, be it a frame, a pose or an
\* environment asset, keeps none of the later steps from being made: when
\* the operation returns, frame 1 (and frame 2 when frame 1 succeeded),
\* every yeti pose that is no frame and every environment spec have been
\* attempted, each once, in that order.
C25_AllImprovedSteps ==
    orch.op = "generate_all_improved" =>
      LET a == hist.attempts
          r == hist.results
          first == IF Styled THEN <<StyleFile>> ELSE <<>>
      IN
      /\ \A i \in DOMAIN a : a[i] = StyleFile => i = 1
      /\ Len(a) = 1 => (Styled <=> ~Exists(hist.before, StyleFile))
      /\ (a = <<>> /\ orch.pc # "done") => Exists(output_dir, StyleFile)
      /\ StyleFailed => (Len(a) = 1 /\ orch.pc = "done" /\ cur = IdleAsset)
      /\ (orch.pc = "done" /\ ~StyleFailed) =>
           /\ Len(r) = Len(a)
           /\ \/ /\ a = first \o <<Frame1File>> \o PosesAndEnvironment
                 /\ ~r[Len(first) + 1]
              \/ /\ a = first \o <<Frame1File, Frame2File>>
                        \o PosesAndEnvironment
                 /\ r[Len(first) + 1]

\* the style guide was there; frame 1, the first pose and the first
\* environment asset returned False, and all seven calls were made
C25_Witness ==
    /\ orch.op = "generate_all_improved" /\ orch.pc = "done"
    /\ asset_specs[1] = LoadedSpecs[1] /\ Len(asset_specs) = Len(LoadedSpecs)
    /\ ~Styled
    /\ Len(hist.attempts) = 7
    /\ ~hist.results[1] /\ ~hist.results[2] /\ ~hist.results[5]
    /\ hist.results[7]

\* the style guide was not there and its generation failed
C25_WitnessAborted ==
    /\ orch.op = "generate_all_improved" /\ orch.pc = "done"
    /\ StyleFailed

\* the style guide was generated and all nine calls were made
C25_WitnessStyled ==
    /\ orch.op = "generate_all_improved" /\ orch.pc = "done"
    /\ Styled /\ Len(hist.attempts) = 9

---------------------------------------------------------------------------
(* The style guide of the animation frames *)

\* the running call is that of an animation frame and has made its
\* submission
FrameSubmitted ==
    /\ InSequence
    /\ cur.target \in {Frame1File, Frame2File}
    /\ Submitted

\* C26: generate_yeti_animation_only returns False without a call of
\* generate_asset when style_reference.png is not there, and in
\* generate_yeti_animation_only and generate_all_improved the body of every
\* submission of an animation frame has the style guide as its
\* input_image.
C26_FramesCarryStyleGuide ==
    /\ (orch.op = "generate_yeti_animation_only"
          /\ ~Exists(output_dir, StyleFile)) =>
         /\ orch.pc = "done" /\ ~orch.ret
         /\ hist.attempts = <<>> /\ cur = IdleAsset
    /\ FrameSubmitted =>
         /\ Exists(hist.before, StyleFile)
         /\ cur.input_image # None
         /\ cur.input_image = B64(hist.before[StyleFile])

\* style_reference.png is an empty file, and frame 1 has been submitted by
\* generate_yeti_animation_only with no input_image in the body
C26_FrameWithoutStyle ==
    /\ orch.op = "generate_yeti_animation_only"
    /\ FrameSubmitted /\ cur.target = Frame1File
    /\ hist.before[StyleFile] = EmptyFile
    /\ cur.input_image = None
    /\ cur.submit_http = "200"

---------------------------------------------------------------------------
(* The references to the style guide *)

\* the catalogue the generator had when the operation was called
Original == CHOOSE c \in Catalogues : Len(c) = Len(asset_specs)

\* the specs other than the style guide are as they were
OthersUnchanged ==
    \A k \in DOMAIN asset_specs :
        asset_specs[k].type # STYLE_GUIDE => asset_specs[k] = Original[k]

\* the assignments: every yeti sprite has the style guide as its reference
\* and KONTEXT_PRO as its model, every environment spec is as it was
Assigned ==
    /\ \A k \in DOMAIN asset_specs :
         /\ asset_specs[k].type = YETI_SPRITE =>
              /\ asset_specs[k].reference_image_path = StyleFile
              /\ asset_specs[k].model = KONTEXT_PRO
         /\ asset_specs[k].type = ENVIRONMENT =>
              asset_specs[k] = Original[k]
         /\ asset_specs[k].type # STYLE_GUIDE =>
              asset_specs[k] = StyleGuideReferences(Original)[k]

C27_WitnessFailed ==
    /\ orch.op = "generate_style_guide_first" /\ orch.pc = "done" /\ ~orch.ret
    /\ asset_specs[1].reference_image_path = FileName("background")
    /\ asset_specs[1].model = KONTEXT_PRO
    /\ hist.results = <<FALSE>>

\* setup_style_guide_references has returned False, and has returned True
C27_WitnessSetupFalse ==
    /\ orch.op = "setup_style_guide_references" /\ orch.pc = "done"
    /\ ~orch.ret
C27_WitnessSetupTrue ==
    /\ orch.op = "setup_style_guide_references" /\ orch.pc = "done"
    /\ orch.ret /\ asset_specs # Original

=============================================================================
